---- MODULE Spec2Model ----
(***************************************************************************)
(* Model of the FramAT beam mesher and constraint builder.                 *)
(*                                                                         *)
(* Coordinates are exact: a point is a triple of integer numerators over a *)
(* common denominator, a relative coordinate is a pair <<num, den>>.       *)
(* Support points are drawn from axis-parallel polylines with integer      *)
(* segment lengths, for which numpy's norm is exact.                       *)
(***************************************************************************)
EXTENDS Integers, Sequences, FiniteSets, TLC

(* ----- bounds of the model ----- *)
MaxBeams == 2
MaxNodes == 3
MaxN == 3
MaxLoads == 2

(* ----- program constants ----- *)
DOF_PER_NODE == 6

(* ----- inputs ----- *)
UidPool == <<"a", "b", "c", "d">>
UidOffset == 2
StepSet == {<<1, 0, 0>>, <<0, 2, 0>>, <<0, 0, 0>>}
Origin == <<0, 0, 0>>

(* a Point without UID has uid = None in the source; named nodes have a   *)
(* non-empty string UID                                                   *)
NoUid == ""
None == <<>>



(* ======================================================================= *)
(* Small helpers                                                           *)
(* ======================================================================= *)

Abs(x) == IF x < 0 THEN -x ELSE x

RECURSIVE SumSeq(_)
SumSeq(s) == IF s = <<>> THEN 0 ELSE Head(s) + SumSeq(Tail(s))

RECURSIVE Flatten(_)
Flatten(ss) == IF ss = <<>> THEN <<>> ELSE Head(ss) \o Flatten(Tail(ss))

(* body(v) with v evaluated once: a local variable of the code *)
Let(v, body(_)) == CHOOSE y \in {body(x) : x \in {v}} : TRUE

Dot(u, v) == u[1]*v[1] + u[2]*v[2] + u[3]*v[3]

(* np.linalg.norm for vectors whose norm is an integer *)
norm(v) == CHOOSE r \in 0..(Abs(v[1]) + Abs(v[2]) + Abs(v[3])) : r*r = Dot(v, v)

(* dict assignment d[k] = v *)
DictSet(d, k, v) == (k :> v) @@ d

(* OrderedDict assignment d[k] = v: update in place, or append *)
ODictSet(od, k, v) ==
    IF \E i \in 1..Len(od) : od[i][1] = k
    THEN [i \in 1..Len(od) |-> IF od[i][1] = k THEN <<k, v>> ELSE od[i]]
    ELSE Append(od, <<k, v>>)

(* s --> (s0,s1), (s1,s2), ... *)
pairwise(s) == [k \in 1..(IF Len(s) = 0 THEN 0 ELSE Len(s) - 1) |-> <<s[k], s[k+1]>>]

(* ======================================================================= *)
(* Double-precision arithmetic of  ceil(n*(seg.len/self.len))              *)
(*                                                                         *)
(* seg.len and self.len are IEEE-754 binary64 values.  The operands are    *)
(* small non-negative integers, which binary64 represents exactly.  A      *)
(* binary64 value in (0, 2] is kept as its 53-bit significand, written as  *)
(* five digits <<t, d1, d2, d3, d4>> in radix 2^13 (t the leading digit),  *)
(* and a shift s:  value = (t.d1d2d3d4) * 2^(-s).                          *)
(* ======================================================================= *)

(* 2^13: four digits hold the 52 fraction bits of binary64 *)
Radix == 8192

(* number of bits of t >= 1 *)
BitLen(t) == CHOOSE j \in 1..30 : 2^(j-1) <= t /\ t < 2^j

(* smallest s with a*2^s >= b, for 0 < a <= b *)
RECURSIVE NormShift(_, _)
NormShift(a, b) == IF a >= b THEN 0 ELSE 1 + NormShift(2*a, b)

(* digits + c, carries propagated into the leading digit *)
AddCarry(ds, c) ==
    LET v4 == ds[5] + c
        v3 == ds[4] + (v4 \div Radix)
        v2 == ds[3] + (v3 \div Radix)
        v1 == ds[2] + (v2 \div Radix)
    IN  <<ds[1] + (v1 \div Radix), v1 % Radix, v2 % Radix, v3 % Radix, v4 % Radix>>

(* digits * n *)
MulSmall(ds, n) ==
    LET v4 == ds[5]*n
        v3 == ds[4]*n + (v4 \div Radix)
        v2 == ds[3]*n + (v3 \div Radix)
        v1 == ds[2]*n + (v2 \div Radix)
    IN  <<ds[1]*n + (v1 \div Radix), v1 % Radix, v2 % Radix, v3 % Radix, v4 % Radix>>

(* the binary64 quotient a/b for 0 < a <= b (long division, 13 bits at a   *)
(* time, then round-half-to-even on the remainder)                         *)
float_div(a, b) ==
    LET s == NormShift(a, b)
        r0 == a * (2^s) - b
        d1 == (r0 * Radix) \div b
        r1 == (r0 * Radix) % b
        d2 == (r1 * Radix) \div b
        r2 == (r1 * Radix) % b
        d3 == (r2 * Radix) \div b
        r3 == (r2 * Radix) % b
        d4 == (r3 * Radix) \div b
        r4 == (r3 * Radix) % b
        up == (2*r4 > b) \/ (2*r4 = b /\ d4 % 2 = 1)
    IN  [d |-> AddCarry(<<1, d1, d2, d3, d4>>, IF up THEN 1 ELSE 0), s |-> s]

(* the binary64 product n*x for an integer n >= 1: the exact product has   *)
(* k bits more than the significand holds; they are rounded half-to-even   *)
float_mul(n, x) ==
    LET p == MulSmall(x.d, n)
        k == BitLen(p[1]) - 1
        low == p[5] % (2^k)
        lsb == (p[5] \div (2^k)) % 2
        up == k > 0 /\ (2*low > 2^k \/ (2*low = 2^k /\ lsb = 1))
        cut == [p EXCEPT ![5] = p[5] - low]
    IN  [d |-> AddCarry(cut, IF up THEN 2^k ELSE 0), s |-> x.s]

(* math.ceil of a positive binary64 value *)
float_ceil(x) ==
    LET t == x.d[1]
        frac == t % (2^x.s) # 0 \/ \E i \in 2..5 : x.d[i] # 0
    IN  (t \div (2^x.s)) + (IF frac THEN 1 ELSE 0)

(* ceil(n*(a/b)) in binary64, for n >= 1 and 0 < a <= b *)
ceil_float(n, a, b) == float_ceil(float_mul(n, float_div(a, b)))

(* ======================================================================= *)
(* Point, LineSegment                                                      *)
(* ======================================================================= *)

Point(coord, den, rel_coord, uid) ==
    [coord |-> coord, den |-> den, rel_coord |-> rel_coord, uid |-> uid]

(* LineSegment(p1, p2) on the shared point list: the constructor writes   *)
(* rel_coord of both end points                                           *)
LineSegment_init(points, k) ==
    [points EXCEPT ![k].rel_coord = <<0, 1>>, ![k+1].rel_coord = <<1, 1>>]

SegDir(points, k) ==
    LET d(c) == points[k+1].coord[c] - points[k].coord[c]
    IN  <<d(1), d(2), d(3)>>
SegLen(points, k) == norm(SegDir(points, k))

(* a variant of split_into whose loop runs over range(1, n + 1) *)
split_into_closed(points, k, n) ==
    LET p1 == points[k]
        p2 == points[k+1]
        dir == SegDir(points, k)
    IN  <<p1>> \o
        [i \in 1..n |->
            Point(<<p1.coord[1]*n + i*dir[1], p1.coord[2]*n + i*dir[2],
                    p1.coord[3]*n + i*dir[3]>>, n, <<i, n>>, NoUid)]
        \o <<p2>>

(* LineSegment.split_into(n): the n+1 points of segment k *)
split_into(points, k, n) ==
    LET p1 == points[k]
        p2 == points[k+1]
        dir == SegDir(points, k)
    IN  <<p1>> \o
        [i \in 1..(n-1) |->
            Point(<<p1.coord[1]*n + i*dir[1], p1.coord[2]*n + i*dir[2],
                    p1.coord[3]*n + i*dir[3]>>, n, <<i, n>>, NoUid)]
        \o <<p2>>

LineSegment_iter_points_all(all_points, exclude_last) == all_points

LineSegment_iter_points(all_points, exclude_last) ==
    IF exclude_last THEN SubSeq(all_points, 1, Len(all_points) - 1) ELSE all_points

(* ======================================================================= *)
(* PolygonalChain                                                          *)
(* ======================================================================= *)

(* the LineSegment constructors of PolygonalChain.__init__, in order *)
RECURSIVE MakeEdges(_, _)
MakeEdges(points, k) ==
    IF k >= Len(points) THEN points
    ELSE MakeEdges(LineSegment_init(points, k), k + 1)

(* a variant of n_seg that gives every segment at least one element *)
n_seg_min1(n, seglen, len) ==
    IF seglen = 0 THEN 1 ELSE ceil_float(n, seglen, len)

(* PolygonalChain.set_node_num: n_seg of one segment, for self.len > 0     *)
(* (n*(0.0/len) is 0.0)                                                    *)
n_seg(n, seglen, len) ==
    IF seglen = 0 THEN 0 ELSE ceil_float(n, seglen, len)

(* PolygonalChain(sup_points, n): sup_points is a sequence of <<uid, coord>> *)
(* with distinct uids (an OrderedDict).  err names the exception raised.    *)
PolygonalChain(sup_points, n) ==
    LET pts0 == [i \in 1..Len(sup_points) |->
                    Point(sup_points[i][2], 1, None, sup_points[i][1])]
        points == MakeEdges(pts0, 1)
        nsegs == IF Len(points) = 0 THEN 0 ELSE Len(points) - 1
        lens == [k \in 1..nsegs |-> SegLen(points, k)]
        len == SumSeq(lens)
        nsplit == [k \in 1..nsegs |-> n_seg(n, lens[k], len)]
        (* self.len = 0: seg.len/self.len is nan and ceil(nan) raises;      *)
        (* n_seg = 0: split_into asserts n > 0                             *)
        err == IF nsegs > 0 /\ len = 0 THEN "ValueError"
               ELSE IF \E k \in 1..nsegs : nsplit[k] <= 0 THEN "AssertionError"
               ELSE "none"
    IN  [err |-> err, points |-> points, lens |-> lens, len |-> len,
         nsplit |-> nsplit,
         all_points |-> IF err = "none"
                        THEN [k \in 1..nsegs |-> split_into(points, k, nsplit[k])]
                        ELSE <<>>]

(* a variant of iter_points that leaves curr_len out of eta_poly *)
PolygonalChain_iter_points_local(chain) ==
    LET nsegs == Len(chain.all_points)
        emit(k, p) ==
            Point(p.coord, p.den,
                  <<p.rel_coord[1]*chain.lens[k], chain.len*p.rel_coord[2]>>,
                  p.uid)
        seg_out(k) ==
            LET ps == LineSegment_iter_points(chain.all_points[k], k < nsegs)
            IN  [i \in 1..Len(ps) |-> emit(k, ps[i])]
    IN  Flatten([k \in 1..nsegs |-> seg_out(k)])

(* PolygonalChain.iter_points for a chain with at least one segment *)
PolygonalChain_iter_points(chain) ==
    LET nsegs == Len(chain.all_points)
        curr_len(k) == SumSeq(SubSeq(chain.lens, 1, k - 1))
        emit(k, p) ==
            Point(p.coord, p.den,
                  <<curr_len(k)*p.rel_coord[2] + p.rel_coord[1]*chain.lens[k],
                    chain.len*p.rel_coord[2]>>,
                  p.uid)
        seg_out(k) ==
            LET ps == LineSegment_iter_points(chain.all_points[k], k < nsegs)
            IN  [i \in 1..Len(ps) |-> emit(k, ps[i])]
    IN  Flatten([k \in 1..nsegs |-> seg_out(k)])

(* ======================================================================= *)
(* AbstractBeamMesh                                                        *)
(* ======================================================================= *)

AbstractEdgeElement(p1, p2) ==
    [p1 |-> p1, p2 |-> p2, up |-> None, point_load |-> <<>>, props |-> <<>>]

AbstractBeamMesh_init ==
    [beams |-> <<>>, uids |-> <<>>,
     num_beams |-> -1, num_elems |-> -1, num_nodes |-> -1,
     named_nodes |-> <<>>, glob_nums |-> <<>>]

(* exception raised by add_beam_line, or "none" *)
add_beam_line_err(sup_points, n) ==
    LET polygon == PolygonalChain(sup_points, n)
    IN  IF polygon.err # "none" THEN polygon.err
        ELSE IF Len(sup_points) < 2 THEN "IndexError"
        ELSE "none"

(* state of the mesh after add_beam_line raised *)
add_beam_line_raise(m) ==
    [m EXCEPT !.num_beams = @ + 1, !.num_nodes = @ + 1]

(* the number of the first node of a new beam: _num_nodes after its        *)
(* increment, the start of the enumeration                                 *)
first_num_stale(m) == m.num_nodes

first_num(m) == m.num_nodes + 1

(* state of the mesh after a successful add_beam_line *)
add_beam_line(m, sup_points, n) ==
    LET nb == m.num_beams + 1
        start == first_num(m)
        pts == PolygonalChain_iter_points(PolygonalChain(sup_points, n))
        ne == Len(pts) - 1
        elems == [k \in 1..ne |-> AbstractEdgeElement(pts[k], pts[k+1])]
        named == {i \in 1..Len(pts) : pts[i].uid # NoUid}
        labels == {<<"FROM:", pts[k].uid>> : k \in {j \in 1..ne : pts[j].uid # NoUid}}
                  \cup {<<"TO:", pts[k+1].uid>> : k \in {j \in 1..ne : pts[j+1].uid # NoUid}}
        carries(l, k) == IF l[1] = "FROM:" THEN pts[k].uid = l[2] ELSE pts[k+1].uid = l[2]
        beam_uids == [l \in labels |->
                        CHOOSE k \in 1..ne : carries(l, k)
                                             /\ \A j \in 1..(k-1) : ~carries(l, j)]
        new_nums == [u \in {pts[i].uid : i \in named} |->
                        start - 1 + (CHOOSE i \in named : pts[i].uid = u
                                        /\ \A j \in named : pts[j].uid = u => j <= i)]
        order == [i \in 1..Len(sup_points) |->
                    <<sup_points[i][1], sup_points[i][2]>>]
    IN  [beams |-> DictSet(m.beams, nb, elems),
         uids |-> DictSet(m.uids, nb, beam_uids),
         num_beams |-> nb,
         num_elems |-> m.num_elems + ne,
         num_nodes |-> start + ne,
         named_nodes |-> DictSet(m.named_nodes, nb, order),
         glob_nums |-> new_nums @@ m.glob_nums]

nelem_beam(m, beam_idx) == Len(m.beams[beam_idx])
nnodes_beam(m, beam_idx) == nelem_beam(m, beam_idx) + 1
ndofs_beam(m, beam_idx) == nnodes_beam(m, beam_idx) * DOF_PER_NODE
nbeams(m) == m.num_beams + 1
nelems(m) == m.num_elems + 1

RECURSIVE SumOver(_, _)
SumOver(f, S) ==
    IF S = {} THEN 0
    ELSE LET x == CHOOSE x \in S : TRUE IN f[x] + SumOver(f, S \ {x})

nnodes(m) == SumOver([b \in DOMAIN m.beams |-> Len(m.beams[b]) + 1], DOMAIN m.beams)
ndofs(m) == nnodes(m) * DOF_PER_NODE

(* ----- look-ups ----- *)

(* named-node UIDs of a beam, in input order *)
NodeUids(m, beam_idx) ==
    [i \in 1..Len(m.named_nodes[beam_idx]) |-> m.named_nodes[beam_idx][i][1]]

(* UIDDict.get_by_uid(key, uid): index of the item, or 0 for KeyError *)
uid_index(m, beam_idx, label) ==
    IF beam_idx \in DOMAIN m.uids /\ label \in DOMAIN m.uids[beam_idx]
    THEN m.uids[beam_idx][label]
    ELSE 0

(* position of a UID in a sequence of UIDs, 0 if absent *)
Pos(uids, u) ==
    IF \E i \in 1..Len(uids) : uids[i] = u
    THEN CHOOSE i \in 1..Len(uids) : uids[i] = u
    ELSE 0

(* AbstractBeamMesh.iter_from_to: the indices of the elements yielded.      *)
(* An unknown UID is a KeyError.  What the UID dictionary does with a       *)
(* range that ends before it starts is not fixed by this repository: it     *)
(* either raises or yields nothing (reversed tells which).                  *)
iter_from_to_open(m, beam_idx, uid1, uid2, reversed) ==
    LET idx1 == uid_index(m, beam_idx, <<"FROM:", uid1>>)
        idx2 == uid_index(m, beam_idx, <<"TO:", uid2>>)
    IN  IF idx1 = 0 \/ idx2 = 0 THEN [err |-> "KeyError", elems |-> <<>>]
        ELSE IF idx1 > idx2
        THEN [err |-> reversed, elems |-> <<>>]
        ELSE [err |-> "none", elems |-> [i \in 1..(idx2 - idx1) |-> idx1 + i - 1]]

iter_from_to(m, beam_idx, uid1, uid2, reversed) ==
    LET idx1 == uid_index(m, beam_idx, <<"FROM:", uid1>>)
        idx2 == uid_index(m, beam_idx, <<"TO:", uid2>>)
    IN  IF idx1 = 0 \/ idx2 = 0 THEN [err |-> "KeyError", elems |-> <<>>]
        ELSE IF idx1 > idx2
        THEN [err |-> reversed, elems |-> <<>>]
        ELSE [err |-> "none", elems |-> [i \in 1..(idx2 - idx1 + 1) |-> idx1 + i - 1]]

(* AbstractBeamMesh.get_by_uid: index of the element, or 0 for KeyError *)
get_by_uid(m, beam_idx, uid) ==
    LET k == uid_index(m, beam_idx, <<"FROM:", uid>>)
    IN  IF k # 0 THEN k ELSE uid_index(m, beam_idx, <<"TO:", uid>>)

(* ElementLookup.__missing__ for a tuple key, over a list of elements:      *)
(* the loop over self.elements, state <<beginning_found, elements>>         *)
RECURSIVE missing_tuple(_, _, _, _, _, _)
missing_tuple(elements, k, uid1, uid2, beginning_found, acc) ==
    IF k > Len(elements) THEN [err |-> "KeyError", elems |-> <<>>]
    ELSE LET elem == elements[k]
             begun == elem.p1.uid = uid1 \/ beginning_found
             acc2 == IF begun THEN Append(acc, k) ELSE acc
         IN  IF elem.p2.uid = uid2 THEN [err |-> "none", elems |-> acc2]
             ELSE missing_tuple(elements, k + 1, uid1, uid2, begun, acc2)

ElementLookup_missing(elements, uid1, uid2) ==
    missing_tuple(elements, 1, uid1, uid2, FALSE, <<>>)

(* ======================================================================= *)
(* State                                                                   *)
(* ======================================================================= *)

VARIABLES
    abm,    \* the AbstractBeamMesh
    call,   \* the last call and its arguments
    err,    \* exception raised by the last call ("none" if it returned)
    ret,    \* what the last call returned
    mdl     \* the point_load definitions of the model, per beam index

vars == <<abm, call, err, ret, mdl>>

(* the support points of a beam: m named nodes, UIDs taken from the pool   *)
(* starting at offset off, each step drawn from StepSet                    *)
RECURSIVE Walk(_, _)
Walk(start, steps) ==
    IF steps = <<>> THEN <<start>>
    ELSE <<start>> \o Walk([c \in 1..3 |-> start[c] + Head(steps)[c]], Tail(steps))

SupPoints(off, steps, m) ==
    LET coords == Walk(Origin, steps)
    IN  [i \in 1..m |-> <<UidPool[((off + i - 1) % Len(UidPool)) + 1], coords[i]>>]

AllUids == {UidPool[i] : i \in 1..Len(UidPool)}

Init ==
    /\ abm = AbstractBeamMesh_init
    /\ call = [op |-> "init"]
    /\ err = "none"
    /\ ret = None
    /\ mdl = <<>>

(* the step sequences of a beam of m nodes: a zero-length segment, if     *)
(* any, is the last one                                                    *)
StepSeqs(m, stepset) ==
    LET k == IF m = 0 THEN 0 ELSE m - 1
    IN  {steps \in [1..k -> stepset] : \A i \in 1..(k - 1) : steps[i] # Origin}

(* abm.add_beam_line(sup_points, n); the UIDs of consecutive beams start   *)
(* at alternating offsets of the pool, so that beams may share UIDs        *)
AddBeamLineWith(counts, ns, stepset) ==
    \E m \in counts, n \in ns :
    \E steps \in StepSeqs(m, stepset) :
       LET off == UidOffset * ((abm.num_beams + 1) % 2)
           sp == SupPoints(off, steps, m)
           e == add_beam_line_err(sp, n)
       IN  /\ call' = [op |-> "add_beam_line", sup_points |-> sp, n |-> n]
           /\ err' = e
           /\ IF e = "none"
              THEN /\ abm' = add_beam_line(abm, sp, n)
                   /\ ret' = <<abm.num_beams + 1>>
              ELSE /\ abm' = add_beam_line_raise(abm)
                   /\ ret' = None
           /\ UNCHANGED mdl

AddBeamLine ==
    /\ abm.num_beams + 1 < MaxBeams
    /\ AddBeamLineWith(0..MaxNodes, 1..MaxN, StepSet)

(* the beam index create_mesh works on: the one add_beam_line returned *)
CurrentBeam == abm.num_beams

(* for elem in abm.iter_from_to(beam_idx, uid1, uid2) *)
IterFromTo ==
    /\ CurrentBeam \in DOMAIN abm.beams
    /\ \E uid1 \in AllUids, uid2 \in AllUids, reversed \in {"ValueError", "none"} :
          LET r == iter_from_to(abm, CurrentBeam, uid1, uid2, reversed)
          IN  /\ call' = [op |-> "iter_from_to", beam_idx |-> CurrentBeam,
                          uid1 |-> uid1, uid2 |-> uid2]
              /\ err' = r.err
              /\ ret' = r.elems
              /\ UNCHANGED <<abm, mdl>>

(* elem_lookup[(uid1, uid2)] on the elements of the beam *)
LookupRange ==
    /\ CurrentBeam \in DOMAIN abm.beams
    /\ \E uid1 \in AllUids, uid2 \in AllUids :
          LET r == ElementLookup_missing(abm.beams[CurrentBeam], uid1, uid2)
          IN  /\ call' = [op |-> "elem_lookup", beam_idx |-> CurrentBeam,
                          uid1 |-> uid1, uid2 |-> uid2]
              /\ err' = r.err
              /\ ret' = r.elems
              /\ UNCHANGED <<abm, mdl>>

(* create_mesh, line 53, for the beams of the models the look-up and load  *)
(* specifications draw from: no degenerate beam                            *)
ModelSteps == {<<0, 2, 0>>}

MeshBeam ==
    /\ abm.num_beams + 1 < MaxBeams
    /\ AddBeamLineWith(2..MaxNodes, 1..MaxN, ModelSteps)

(* ----- the mesh under add_beam_line ----- *)
Next == AddBeamLine

Spec == Init /\ [][Next]_vars

(* ----- element ranges of the meshed beams ----- *)
NextLookup == MeshBeam \/ IterFromTo \/ LookupRange

SpecLookup == Init /\ [][NextLookup]_vars

(* ----- the element counts of the segments of one chain ----- *)
(* the values of nelem and the segment lengths the chains are drawn from *)
ElemCounts == {1, 2, 3, 4, 7, 25}
SegLens == {1, 2, 7, 18}

(* support points on the x axis, consecutive ones lens[i] apart *)
RECURSIVE AxisWalk(_, _)
AxisWalk(x, lens) ==
    IF lens = <<>> THEN <<<<x, 0, 0>>>>
    ELSE <<<<x, 0, 0>>>> \o AxisWalk(x + Head(lens), Tail(lens))

AxisPoints(lens) ==
    LET coords == AxisWalk(0, lens)
    IN  [i \in 1..Len(coords) |-> <<UidPool[((i - 1) % Len(UidPool)) + 1], coords[i]>>]

(* polygon = PolygonalChain(sup_points, n): the constructor ends with      *)
(* set_node_num(n)                                                         *)
SetNodeNum ==
    /\ call.op = "init"
    /\ \E k \in 1..(MaxNodes - 1), n \in ElemCounts :
       \E lens \in [1..k -> SegLens] :
          LET sp == AxisPoints(lens)
              chain == PolygonalChain(sp, n)
          IN  /\ call' = [op |-> "set_node_num", sup_points |-> sp, n |-> n,
                          lens |-> chain.lens, len |-> chain.len]
              /\ err' = chain.err
              /\ ret' = chain.nsplit
              /\ UNCHANGED <<abm, mdl>>

NextNum == SetNodeNum

SpecNum == Init /\ [][NextNum]_vars

(* ======================================================================= *)
(* Exact fractions <<numerator, denominator>>, denominator > 0, in lowest  *)
(* terms, standing for the floating-point numbers of element matrices      *)
(* ======================================================================= *)

RECURSIVE GCD(_, _)
GCD(a, b) ==
    Let(<<a, b>>, LAMBDA p : IF p[2] = 0 THEN p[1] ELSE GCD(p[2], p[1] % p[2]))

Frac(n, d) ==
    Let(<<n, d>>, LAMBDA p :
    Let(GCD(Abs(p[1]), Abs(p[2])), LAMBDA g :
        IF p[2] < 0 THEN <<(-p[1]) \div g, (-p[2]) \div g>>
        ELSE <<p[1] \div g, p[2] \div g>>))

F0 == <<0, 1>>
F1 == <<1, 1>>
FInt(n) == <<n, 1>>
FNeg(a) == Let(a, LAMBDA x : <<-x[1], x[2]>>)
FAdd(a, b) ==
    Let(<<a, b>>, LAMBDA p : Frac(p[1][1]*p[2][2] + p[2][1]*p[1][2], p[1][2]*p[2][2]))
FSub(a, b) ==
    Let(<<a, b>>, LAMBDA p : Frac(p[1][1]*p[2][2] - p[2][1]*p[1][2], p[1][2]*p[2][2]))
FMul(a, b) == Let(<<a, b>>, LAMBDA p : Frac(p[1][1]*p[2][1], p[1][2]*p[2][2]))
FDiv(a, b) == Let(<<a, b>>, LAMBDA p : Frac(p[1][1]*p[2][2], p[1][2]*p[2][1]))
FLeq(a, b) == Let(<<a, b>>, LAMBDA p : p[1][1]*p[2][2] <= p[2][1]*p[1][2])

(* ======================================================================= *)
(* Element                                                                 *)
(* ======================================================================= *)

(* the axes of the global system *)
G_X == <<1, 0, 0>>
G_Y == <<0, 1, 0>>
G_Z == <<0, 0, 1>>

cross(a, b) ==
    <<a[2]*b[3] - a[3]*b[2], a[3]*b[1] - a[1]*b[3], a[1]*b[2] - a[2]*b[1]>>

(* v/|v|, for v along a coordinate axis *)
unit_vector(v) ==
    LET n == norm(v) IN <<v[1] \div n, v[2] \div n, v[3] \div n>>

(* a - (a.b/b.b) b, for b along a coordinate axis *)
vector_rejection(a, b) ==
    LET f == Dot(a, b) \div Dot(b, b)
    IN  <<a[1] - f*b[1], a[2] - f*b[2], a[3] - f*b[3]>>

(* a.b/(|a||b|), for a and b along coordinate axes *)
direction_cosine(a, b) == Dot(a, b) \div (norm(a) * norm(b))

(* p2.coord - p1.coord up to a positive factor: the coordinates are        *)
(* numerators over the point's den                                         *)
elem_dir(a) ==
    LET d(c) == a.p2.coord[c]*a.p1.den - a.p1.coord[c]*a.p2.den
    IN  <<d(1), d(2), d(3)>>

(* get_local_system_from_up: np.dot with up = None is a TypeError; the     *)
(* tolerance 1e-10 on integers is equality                                 *)
get_local_system_from_up(x_elem, up) ==
    IF up = None THEN [err |-> "TypeError"]
    ELSE IF Abs(1 - Abs(Dot(x_elem, up))) = 0 THEN [err |-> "ValueError"]
    ELSE LET z_elem == unit_vector(vector_rejection(up, x_elem))
             y_elem == unit_vector(cross(z_elem, x_elem))
         IN  [err |-> "none", y_elem |-> y_elem, z_elem |-> z_elem]

(* T3 of Element.__init__: rows are the direction cosines of x_elem,       *)
(* y_elem, z_elem; T is T3 repeated four times on the diagonal            *)
Element_T3(x_elem, y_elem, z_elem) ==
    LET row(v) == <<direction_cosine(v, G_X), direction_cosine(v, G_Y),
                    direction_cosine(v, G_Z)>>
    IN  <<row(x_elem), row(y_elem), row(z_elem)>>

(* self.T @ v for a 12-vector v *)
T_matmul(T3, v) ==
    LET e(i) == LET blk == 3 * ((i - 1) \div 3)
                    r == ((i - 1) % 3) + 1
                IN  T3[r][1]*v[blk+1] + T3[r][2]*v[blk+2] + T3[r][3]*v[blk+3]
    IN  <<e(1), e(2), e(3), e(4), e(5), e(6), e(7), e(8), e(9), e(10), e(11), e(12)>>

(* dict.get(key, default) *)
dict_get(d, key, default) == IF key \in DOMAIN d THEN d[key] ELSE default

(* load_contrib of Element.add_point_load *)
load_contrib_swapped(load, node_num) ==
    IF node_num = 1
    THEN <<0, 0, 0, 0, 0, 0, load[1], load[2], load[3], load[4], load[5], load[6]>>
    ELSE <<load[1], load[2], load[3], load[4], load[5], load[6], 0, 0, 0, 0, 0, 0>>

load_contrib(load, node_num) ==
    IF node_num = 1
    THEN <<load[1], load[2], load[3], load[4], load[5], load[6], 0, 0, 0, 0, 0, 0>>
    ELSE <<0, 0, 0, 0, 0, 0, load[1], load[2], load[3], load[4], load[5], load[6]>>

(* u + v for 12-vectors *)
vec12_add(u, v) ==
    <<u[1] + v[1], u[2] + v[2], u[3] + v[3], u[4] + v[4], u[5] + v[5], u[6] + v[6],
      u[7] + v[7], u[8] + v[8], u[9] + v[9], u[10] + v[10], u[11] + v[11],
      u[12] + v[12]>>

(* Element.add_point_load: the new load_vector_glob *)
add_point_load(T3, load_vector_glob, load, node_num, loc_system) ==
    vec12_add(load_vector_glob,
              IF loc_system THEN T_matmul(T3, load_contrib(load, node_num))
              ELSE load_contrib(load, node_num))

(* the loop over a.iter('point_load') of from_abstract_element *)
RECURSIVE add_point_loads(_, _, _)
add_point_loads(T3, load_vector_glob, pls) ==
    IF pls = <<>> THEN load_vector_glob
    ELSE LET pl == Head(pls)
         IN  add_point_loads(T3,
                 add_point_load(T3, load_vector_glob, pl.load, pl.node,
                                dict_get(pl, "loc_system", FALSE)),
                 Tail(pls))

(* forces the entries of a sequence to be computed once *)
Eager(s) == s \o <<>>

PROP_TYPES == <<"E", "G", "rho", "A", "Iy", "Iz", "J">>

(* Element.length for an element along a coordinate axis *)
Element_length(a) == Frac(norm(elem_dir(a)), a.p1.den * a.p2.den)

(* a variant of the entry k_elem[2, 4] with the sign of k_elem[1, 5] *)
k_24_plus(EIy, L2) == FDiv(FMul(FInt(6), EIy), L2)

(* k_elem[2, 4] = -6*EIy/L2 *)
k_24(EIy, L2) == FDiv(FMul(FInt(-6), EIy), L2)

(* Element.stiffness_matrix_local: the entries written above the diagonal  *)
(* and on it (0-based indices), then k_elem += np.triu(k_elem, k=1).T      *)
stiffness_matrix_local(properties, L) ==
    LET E == properties["E"]
        G == properties["G"]
        A == properties["A"]
        Iy == properties["Iy"]
        Iz == properties["Iz"]
        J == properties["J"]
        EA == FMul(E, A)
        EIy == FMul(E, Iy)
        EIz == FMul(E, Iz)
        GJ == FMul(G, J)
        L2 == FMul(L, L)
        L3 == FMul(L2, L)
        c(n, x, d) == FDiv(FMul(FInt(n), x), d)
        upper(i, j) ==
            CASE <<i, j>> = <<0, 0>> -> c(1, EA, L)
              [] <<i, j>> = <<0, 6>> -> c(-1, EA, L)
              [] <<i, j>> = <<1, 1>> -> c(12, EIz, L3)
              [] <<i, j>> = <<1, 5>> -> c(6, EIz, L2)
              [] <<i, j>> = <<1, 7>> -> c(-12, EIz, L3)
              [] <<i, j>> = <<1, 11>> -> c(6, EIz, L2)
              [] <<i, j>> = <<2, 2>> -> c(12, EIy, L3)
              [] <<i, j>> = <<2, 4>> -> k_24(EIy, L2)
              [] <<i, j>> = <<2, 8>> -> c(-12, EIy, L3)
              [] <<i, j>> = <<2, 10>> -> c(-6, EIy, L2)
              [] <<i, j>> = <<3, 3>> -> c(1, GJ, L)
              [] <<i, j>> = <<3, 9>> -> c(-1, GJ, L)
              [] <<i, j>> = <<4, 4>> -> c(4, EIy, L)
              [] <<i, j>> = <<4, 8>> -> c(6, EIy, L2)
              [] <<i, j>> = <<4, 10>> -> c(2, EIy, L)
              [] <<i, j>> = <<5, 5>> -> c(4, EIz, L)
              [] <<i, j>> = <<5, 7>> -> c(-6, EIz, L2)
              [] <<i, j>> = <<5, 11>> -> c(2, EIz, L)
              [] <<i, j>> = <<6, 6>> -> c(1, EA, L)
              [] <<i, j>> = <<7, 7>> -> c(12, EIz, L3)
              [] <<i, j>> = <<7, 11>> -> c(-6, EIz, L2)
              [] <<i, j>> = <<8, 8>> -> c(12, EIy, L3)
              [] <<i, j>> = <<8, 10>> -> c(6, EIy, L2)
              [] <<i, j>> = <<9, 9>> -> c(1, GJ, L)
              [] <<i, j>> = <<10, 10>> -> c(4, EIy, L)
              [] <<i, j>> = <<11, 11>> -> c(4, EIz, L)
              [] OTHER -> F0
    IN  Eager([i \in 1..12 |->
            Eager([j \in 1..12 |->
                IF i <= j THEN upper(i - 1, j - 1) ELSE upper(j - 1, i - 1)])])

(* a variant of stiffness_matrix_glob with the transpose on the other      *)
(* side: self.T @ k_elem @ self.T.T                                        *)
stiffness_matrix_glob_TkTt(T3, k_elem) ==
    LET blk(i) == 3 * ((i - 1) \div 3)
        loc(i) == ((i - 1) % 3) + 1
        term(i, j, a, b) ==
            IF T3[loc(i)][a] = 0 \/ T3[loc(j)][b] = 0 THEN F0
            ELSE FMul(FInt(T3[loc(i)][a] * T3[loc(j)][b]), k_elem[blk(i) + a][blk(j) + b])
        row_sum(i, j, a) ==
            FAdd(FAdd(term(i, j, a, 1), term(i, j, a, 2)), term(i, j, a, 3))
        entry(i, j) ==
            FAdd(FAdd(row_sum(i, j, 1), row_sum(i, j, 2)), row_sum(i, j, 3))
    IN  Eager([i \in 1..12 |-> Eager([j \in 1..12 |-> entry(i, j)])])

(* Element.stiffness_matrix_glob: self.T.T @ k_elem @ self.T, T being T3   *)
(* repeated four times on the diagonal                                     *)
stiffness_matrix_glob(T3, k_elem) ==
    LET blk(i) == 3 * ((i - 1) \div 3)
        loc(i) == ((i - 1) % 3) + 1
        term(i, j, a, b) ==
            IF T3[a][loc(i)] = 0 \/ T3[b][loc(j)] = 0 THEN F0
            ELSE FMul(FInt(T3[a][loc(i)] * T3[b][loc(j)]), k_elem[blk(i) + a][blk(j) + b])
        row_sum(i, j, a) ==
            FAdd(FAdd(term(i, j, a, 1), term(i, j, a, 2)), term(i, j, a, 3))
        entry(i, j) ==
            FAdd(FAdd(row_sum(i, j, 1), row_sum(i, j, 2)), row_sum(i, j, 3))
    IN  Eager([i \in 1..12 |-> Eager([j \in 1..12 |-> entry(i, j)])])

(* Element.from_abstract_element(a) *)
from_abstract_element(a) ==
    LET x_elem == unit_vector(elem_dir(a))
        sys == get_local_system_from_up(x_elem, a.up)
    IN  IF sys.err # "none"
        THEN [err |-> sys.err, T3 |-> None, load_vector_glob |-> None]
        ELSE LET T3 == Element_T3(x_elem, sys.y_elem, sys.z_elem)
             IN  [err |-> "none", T3 |-> T3,
                  length |-> Element_length(a),
                  properties |-> [p \in {PROP_TYPES[i] : i \in 1..Len(PROP_TYPES)} |->
                                     dict_get(a.props, p, None)],
                  load_vector_glob |->
                      add_point_loads(T3, <<0, 0, 0, 0, 0, 0, 0, 0, 0, 0, 0, 0>>,
                                      a.point_load)]

(* ----- orientation and point loads of one beam, then its elements ----- *)
LoadNodeCounts == {2, 3}
LoadElemCounts == {1, 2}
UpSet == {G_Z, G_Y}
LoadSet == {<<1, 2, 3, 4, 5, 6>>}

(* create_mesh is still at work on the beam *)
InCreateMesh ==
    /\ call.op \in {"add_beam_line", "orientation", "point_load"}
    /\ err = "none"
    /\ CurrentBeam \in DOMAIN abm.beams

MeshOneBeam ==
    /\ abm.num_beams = -1
    /\ AddBeamLineWith(LoadNodeCounts, LoadElemCounts, ModelSteps)

(* for pdef in mbeam.iter('orientation'): one definition per beam, its     *)
(* from node before its to node                                            *)
Orientation ==
    /\ InCreateMesh
    /\ call.op = "add_beam_line"
    /\ LET b == CurrentBeam
           uids == NodeUids(abm, b)
       IN  \E i1 \in 1..Len(uids), i2 \in 1..Len(uids), up \in UpSet :
              /\ i1 < i2
              /\ LET r == iter_from_to(abm, b, uids[i1], uids[i2], "none")
                     hit == {r.elems[i] : i \in 1..Len(r.elems)}
                 IN  /\ abm' = [abm EXCEPT !.beams[b] =
                                  [k \in DOMAIN @ |->
                                      IF k \in hit THEN [@[k] EXCEPT !.up = up]
                                      ELSE @[k]]]
                     /\ call' = [op |-> "orientation", beam_idx |-> b,
                                 from |-> uids[i1], to |-> uids[i2], up |-> up]
                     /\ err' = r.err
                     /\ ret' = r.elems
                     /\ UNCHANGED mdl

(* the point_load definitions of beam b in the model *)
point_loads_of(b) == IF b \in DOMAIN mdl THEN mdl[b] ELSE <<>>

(* for pdef in mbeam.iter('point_load'): local_sys is optional in the model *)
PointLoad ==
    /\ InCreateMesh
    /\ Len(point_loads_of(CurrentBeam)) < MaxLoads
    /\ LET b == CurrentBeam
           uids == NodeUids(abm, b)
       IN  \E i \in 1..Len(uids), load \in LoadSet,
              local_sys \in {"true", "false", "absent"} :
              LET at == uids[i]
                  pdef == IF local_sys = "absent"
                          THEN [at |-> at, load |-> load]
                          ELSE [at |-> at, load |-> load,
                                local_sys |-> (local_sys = "true")]
                  k == get_by_uid(abm, b, at)
                  node_id == IF abm.beams[b][k].p1.uid = at THEN 1 ELSE 2
                  entry == [load |-> load, node |-> node_id, local_sys |-> FALSE]
              IN  /\ abm' = [abm EXCEPT !.beams[b][k].point_load = Append(@, entry)]
                  /\ mdl' = DictSet(mdl, b, Append(point_loads_of(b), pdef))
                  /\ call' = [op |-> "point_load", beam_idx |-> b, pdef |-> pdef]
                  /\ err' = "none"
                  /\ ret' = <<k>>

(* Element.from_abstract_element(abstract_element), once the mesh is done *)
FromAbstractElement ==
    /\ InCreateMesh
    /\ \E k \in 1..Len(abm.beams[CurrentBeam]) :
          LET r == from_abstract_element(abm.beams[CurrentBeam][k])
          IN  /\ call' = [op |-> "from_abstract_element",
                          beam_idx |-> CurrentBeam, k |-> k]
              /\ err' = r.err
              /\ ret' = [T3 |-> r.T3, load_vector_glob |-> r.load_vector_glob]
              /\ UNCHANGED <<abm, mdl>>

NextLoads == MeshOneBeam \/ Orientation \/ PointLoad \/ FromAbstractElement

SpecLoads == Init /\ [][NextLoads]_vars

(* ======================================================================= *)
(* Boundary conditions                                                     *)
(* ======================================================================= *)

(* allowed_items of schema_fix *)
allowed_items == {"ux", "uy", "uz", "thx", "thy", "thz", "all"}

pos_dict == [ux |-> 0, uy |-> 1, uz |-> 2, tx |-> 3, ty |-> 4, tz |-> 5]

(* a row of n zeros with a 1 in (0-based) column col *)
unit_row(n, col) == [j \in 1..n |-> IF j = col + 1 THEN 1 ELSE 0]

(* the six rows of fix_dof for 'all': np.eye(6) on the block of the node *)
all_rows(node_number, total_ndof) ==
    [i \in 1..6 |-> unit_row(total_ndof, 6*node_number + i - 1)]

(* a variant of the loop in which 'all' adds its six rows to the rows so   *)
(* far and the loop goes on                                                *)
RECURSIVE fix_dof_loop_append(_, _, _, _)
fix_dof_loop_append(node_number, total_ndof, dof_constraints, B) ==
    IF dof_constraints = <<>> THEN [err |-> "none", B |-> B]
    ELSE LET constraint == Head(dof_constraints)
         IN  IF constraint = "all"
             THEN fix_dof_loop_append(node_number, total_ndof, Tail(dof_constraints),
                      B \o all_rows(node_number, total_ndof))
             ELSE IF constraint \notin DOMAIN pos_dict
             THEN [err |-> "KeyError", B |-> <<>>]
             ELSE fix_dof_loop_append(node_number, total_ndof, Tail(dof_constraints),
                      Append(B, unit_row(total_ndof,
                                         6*node_number + pos_dict[constraint])))

(* the loop of fix_dof over dof_constraints, B the rows so far *)
RECURSIVE fix_dof_loop(_, _, _, _)
fix_dof_loop(node_number, total_ndof, dof_constraints, B) ==
    IF dof_constraints = <<>> THEN [err |-> "none", B |-> B]
    ELSE LET constraint == Head(dof_constraints)
         IN  IF constraint = "all"
             THEN [err |-> "none", B |-> all_rows(node_number, total_ndof)]
             ELSE IF constraint \notin DOMAIN pos_dict
             THEN [err |-> "KeyError", B |-> <<>>]
             ELSE fix_dof_loop(node_number, total_ndof, Tail(dof_constraints),
                      Append(B, unit_row(total_ndof,
                                         6*node_number + pos_dict[constraint])))

fix_dof(node_number, total_ndof, dof_constraints) ==
    fix_dof_loop(node_number, total_ndof, dof_constraints, <<>>)

(* N2 of connect for (dx, dy, dz) = x1 - x2 *)
connect_N2_plus(d) ==
    << <<-1, 0, 0, 0, d[3], d[2]>>,
       <<0, -1, 0, d[3], 0, -d[1]>>,
       <<0, 0, -1, -d[2], d[1], 0>>,
       <<0, 0, 0, -1, 0, 0>>,
       <<0, 0, 0, 0, -1, 0>>,
       <<0, 0, 0, 0, 0, -1>> >>

connect_N2(d) ==
    << <<-1, 0, 0, 0, -d[3], d[2]>>,
       <<0, -1, 0, d[3], 0, -d[1]>>,
       <<0, 0, -1, -d[2], d[1], 0>>,
       <<0, 0, 0, -1, 0, 0>>,
       <<0, 0, 0, 0, -1, 0>>,
       <<0, 0, 0, 0, 0, -1>> >>

(* connect: B with N1 = eye(6) written on the block of node 1 and then N2  *)
(* on the block of node 2                                                  *)
connect(node1_number, node2_number, x1, x2, ndof) ==
    LET d == <<x1[1] - x2[1], x1[2] - x2[2], x1[3] - x2[3]>>
        N2 == connect_N2(d)
    IN  [i \in 1..6 |-> [j \in 1..ndof |->
            IF (j - 1) \div 6 = node2_number THEN N2[i][((j - 1) % 6) + 1]
            ELSE IF (j - 1) \div 6 = node1_number
            THEN (IF ((j - 1) % 6) + 1 = i THEN 1 ELSE 0)
            ELSE 0]]

(* ----- the constraint rows of fix_dof and connect ----- *)
MaxBCNodes == 2

(* symbols of a fix list: those of the schema and those of pos_dict *)
FixSymbols == allowed_items \cup DOMAIN pos_dict
NodeCoords == {<<0, 0, 0>>, <<1, 2, 3>>, <<0, 2, 0>>}

FixDof ==
    /\ call.op = "init"
    /\ \E node_number \in 0..(MaxBCNodes - 1), len \in 1..2 :
       \E dof_constraints \in [1..len -> FixSymbols] :
          LET total_ndof == DOF_PER_NODE * MaxBCNodes
              r == fix_dof(node_number, total_ndof, dof_constraints)
          IN  /\ call' = [op |-> "fix_dof", node_number |-> node_number,
                          total_ndof |-> total_ndof,
                          dof_constraints |-> dof_constraints]
              /\ err' = r.err
              /\ ret' = r.B
              /\ UNCHANGED <<abm, mdl>>

Connect ==
    /\ call.op = "init"
    /\ \E node1_number \in 0..(MaxBCNodes - 1), node2_number \in 0..(MaxBCNodes - 1),
          x1 \in NodeCoords, x2 \in NodeCoords :
          LET ndof == DOF_PER_NODE * MaxBCNodes
          IN  /\ call' = [op |-> "connect", node1_number |-> node1_number,
                          node2_number |-> node2_number, x1 |-> x1, x2 |-> x2,
                          ndof |-> ndof]
              /\ err' = "none"
              /\ ret' = connect(node1_number, node2_number, x1, x2, ndof)
              /\ UNCHANGED <<abm, mdl>>

(* Frame._apply_boundary_conditions, the branch for a 'connect' entry of    *)
(* the model: the fix list of the entry is not handed on (None is)         *)
ApplyConnect ==
    /\ call.op = "init"
    /\ \E node1_number \in 0..(MaxBCNodes - 1), node2_number \in 0..(MaxBCNodes - 1),
          x1 \in NodeCoords, len \in 1..2 :
       \E fix \in [1..len -> allowed_items] :
          LET ndof == DOF_PER_NODE * MaxBCNodes
              connection == [node1 |-> node1_number, node2 |-> node2_number,
                             fix |-> fix]
          IN  /\ node1_number # node2_number
              /\ call' = [op |-> "apply_connect", connection |-> connection,
                          x1 |-> x1, x2 |-> Origin, ndof |-> ndof]
              /\ err' = "none"
              /\ ret' = connect(connection.node1, connection.node2, x1, Origin, ndof)
              /\ UNCHANGED <<abm, mdl>>

NextBC == FixDof \/ Connect \/ ApplyConnect

SpecBC == Init /\ [][NextBC]_vars

(* ======================================================================= *)
(* Properties                                                              *)
(* ======================================================================= *)

(* every add_beam_line so far returned: each beam index has its beam *)
NoCallRaised == DOMAIN abm.beams = 0..abm.num_beams

(* the points of a beam in the order they were visited *)
BeamPoints(m, b) ==
    [j \in 1..(Len(m.beams[b]) + 1) |->
        IF j = 1 THEN m.beams[b][1].p1 ELSE m.beams[b][j-1].p2]

(* sum over k < i of nelem_beam(k) + 1 *)
Offset(m, b) ==
    LET before == {k \in DOMAIN m.beams : k < b}
    IN  SumOver([k \in before |-> nelem_beam(m, k) + 1], before)

CarriedBy(m, b) == {BeamPoints(m, b)[j].uid : j \in 1..nnodes_beam(m, b)} \ {NoUid}

(* C1: after successful add_beam_line calls the node indices are 0..N-1,   *)
(* beam i owns the consecutive indices from the sum over k<i of            *)
(* nelem_beam(k)+1, and glob_nums maps each named-node UID to the index of *)
(* the mesh point carrying it (of the latest beam carrying it, when a UID  *)
(* is used again), distinct UIDs to distinct indices.                      *)
C1_NodeNumbering ==
    NoCallRaised =>
        /\ abm.num_nodes + 1 = nnodes(abm)
        /\ \A b \in DOMAIN abm.beams : \A j \in 1..nnodes_beam(abm, b) :
              LET u == BeamPoints(abm, b)[j].uid
              IN  (u # NoUid /\ \A b2 \in DOMAIN abm.beams :
                                    b2 > b => u \notin CarriedBy(abm, b2))
                  => /\ u \in DOMAIN abm.glob_nums
                     /\ abm.glob_nums[u] = Offset(abm, b) + j - 1
        /\ DOMAIN abm.glob_nums = UNION {CarriedBy(abm, b) : b \in DOMAIN abm.beams}
        /\ \A u1 \in DOMAIN abm.glob_nums, u2 \in DOMAIN abm.glob_nums :
              u1 # u2 => abm.glob_nums[u1] # abm.glob_nums[u2]
        /\ \A u \in DOMAIN abm.glob_nums : abm.glob_nums[u] \in 0..(nnodes(abm) - 1)

(* two beams, the second with a named node strictly inside it *)
C1_Witness ==
    /\ NoCallRaised
    /\ abm.num_beams = 1
    /\ nelem_beam(abm, 0) >= 2
    /\ \E j \in 2..nelem_beam(abm, 1) :
          /\ BeamPoints(abm, 1)[j].uid # NoUid
          /\ abm.glob_nums[BeamPoints(abm, 1)[j].uid] = nelem_beam(abm, 0) + j

(* C2: ndofs_beam(i) = 6*(nelem_beam(i)+1) for every beam, the sum of      *)
(* ndofs_beam over the beams is ndofs, and nnodes = nelems + nbeams, in    *)
(* every mesh reachable by add_beam_line calls.                            *)
C2_DofCount ==
    /\ \A b \in DOMAIN abm.beams : ndofs_beam(abm, b) = 6*(nelem_beam(abm, b) + 1)
    /\ SumOver([b \in DOMAIN abm.beams |-> ndofs_beam(abm, b)], DOMAIN abm.beams)
          = ndofs(abm)
    /\ nnodes(abm) = nelems(abm) + nbeams(abm)

(* C4: the points of a new beam hold every support point once, in input    *)
(* order and with its UID, all other points have no UID, and there are     *)
(* (sum of n_i) + 1 points.                                                *)
C4_PointSequence ==
    (call.op = "add_beam_line" /\ err = "none") =>
        LET pts == BeamPoints(abm, ret[1])
            sp == call.sup_points
            named == SelectSeq(pts, LAMBDA p : p.uid # NoUid)
            chain == PolygonalChain(sp, call.n)
        IN  /\ Len(named) = Len(sp)
            /\ \A i \in 1..Len(sp) :
                  /\ named[i].uid = sp[i][1]
                  /\ named[i].coord = sp[i][2]
                  /\ named[i].den = 1
            /\ \A i \in 1..Len(sp) :
                  Cardinality({j \in 1..Len(pts) : pts[j].uid = sp[i][1]}) = 1
            /\ Len(pts) = SumSeq(chain.nsplit) + 1

(* a beam of three support points with a subdivided segment *)
C4_Witness ==
    /\ call.op = "add_beam_line" /\ err = "none"
    /\ Len(call.sup_points) = 3
    /\ Len(BeamPoints(abm, ret[1])) >= 4
    /\ BeamPoints(abm, ret[1])[2].uid = NoUid

(* C5: for uid1 before uid2 on the beam, the range look-up yields the      *)
(* elements from the one starting at uid1 through the one ending at uid2,  *)
(* consecutively; first node to last node yields the whole beam.           *)
IsRangeCall == call.op \in {"iter_from_to", "elem_lookup"}

C5_RangeElements ==
    LET uids == NodeUids(abm, call.beam_idx)
        p1 == Pos(uids, call.uid1)
        p2 == Pos(uids, call.uid2)
        elems == abm.beams[call.beam_idx]
    IN  (IsRangeCall /\ p1 # 0 /\ p2 # 0 /\ p1 < p2) =>
            /\ err = "none"
            /\ Len(ret) >= 1
            /\ elems[ret[1]].p1.uid = call.uid1
            /\ elems[ret[Len(ret)]].p2.uid = call.uid2
            /\ \A i \in 1..(Len(ret) - 1) : ret[i+1] = ret[i] + 1
            /\ (p1 = 1 /\ p2 = Len(uids)) => ret = [i \in 1..Len(elems) |-> i]

(* a range that starts inside the beam and spans several elements *)
C5_Witness ==
    /\ call.op = "iter_from_to"
    /\ err = "none"
    /\ Len(ret) >= 2
    /\ ret[1] > 1
    /\ Pos(NodeUids(abm, call.beam_idx), call.uid1)
          < Pos(NodeUids(abm, call.beam_idx), call.uid2)

(* C6: a from/to look-up on a list of elements raises when a UID is not a  *)
(* named node of the beam and when uid2 comes before uid1; it returns no   *)
(* empty or partial list.                                                  *)
C6_LookupRaises ==
    LET uids == NodeUids(abm, call.beam_idx)
        p1 == Pos(uids, call.uid1)
        p2 == Pos(uids, call.uid2)
    IN  (call.op = "elem_lookup" /\ (p1 = 0 \/ p2 = 0 \/ p2 < p1)) => err # "none"

(* the least integer not below a/b, for b > 0 *)
ExactCeil(a, b) == (a + b - 1) \div b

Max(a, b) == IF a >= b THEN a ELSE b

(* C3: with all segments of positive length and n >= 1, segment i gets     *)
(* exactly ceil(n*L_i/L) elements, at least one, and the beam at least     *)
(* max(n, number of segments).                                             *)
C3_SegmentCounts ==
    (call.op = "set_node_num" /\ \A i \in 1..Len(call.lens) : call.lens[i] > 0) =>
        /\ \A i \in 1..Len(ret) :
              /\ ret[i] = ExactCeil(call.n * call.lens[i], call.len)
              /\ ret[i] >= 1
        /\ SumSeq(ret) >= Max(call.n, Len(call.lens))

(* the parts of C3 that do not depend on the rounding: every segment gets  *)
(* at least one and at least ceil(n*L_i/L) elements                        *)
AtLeastCeil ==
    (call.op = "set_node_num") =>
        /\ \A i \in 1..Len(ret) :
              /\ ret[i] >= ExactCeil(call.n * call.lens[i], call.len)
              /\ ret[i] >= 1
        /\ SumSeq(ret) >= Max(call.n, Len(call.lens))

(* the point_load definitions of beam b whose node resolves to element k *)
AttachedTo(b, k) ==
    SelectSeq(point_loads_of(b), LAMBDA pd : get_by_uid(abm, b, pd.at) = k)

(* the endpoint of an element that carries the UID: 1, 2, or 0 for neither *)
EndpointOf(elem, uid) ==
    IF elem.p1.uid = uid THEN 1 ELSE IF elem.p2.uid = uid THEN 2 ELSE 0

(* sum of the loads of the entries at endpoint node_num, component j *)
RECURSIVE SumAt(_, _, _)
SumAt(pls, node_num, j) ==
    IF pls = <<>> THEN 0
    ELSE (IF Head(pls).node = node_num THEN Head(pls).load[j] ELSE 0)
         + SumAt(Tail(pls), node_num, j)

(* C7: every point_load of the model is held by exactly one element, one   *)
(* incident to its node, with the number of the endpoint carrying the UID; *)
(* the element's load vector holds the loads of endpoint 1 in slots 0..5   *)
(* and those of endpoint 2 in slots 6..11, each once.                      *)
C7_PointLoadOnce ==
    \A b \in DOMAIN abm.beams :
        LET elems == abm.beams[b]
            pds == point_loads_of(b)
        IN  /\ \A i \in 1..Len(pds) :
                  LET k == get_by_uid(abm, b, pds[i].at)
                  IN  k \in 1..Len(elems) /\ EndpointOf(elems[k], pds[i].at) # 0
            /\ \A k \in 1..Len(elems) :
                  LET att == AttachedTo(b, k)
                      pls == elems[k].point_load
                  IN  /\ Len(pls) = Len(att)
                      /\ \A i \in 1..Len(pls) :
                            /\ pls[i].load = att[i].load
                            /\ pls[i].node = EndpointOf(elems[k], att[i].at)
            /\ SumSeq([k \in 1..Len(elems) |-> Len(elems[k].point_load)]) = Len(pds)
            /\ (call.op = "from_abstract_element" /\ call.beam_idx = b /\ err = "none")
                  => \A j \in 1..6 :
                        /\ ret.load_vector_glob[j]
                              = SumAt(elems[call.k].point_load, 1, j)
                        /\ ret.load_vector_glob[6 + j]
                              = SumAt(elems[call.k].point_load, 2, j)

(* an element built with two loads at its first node, which is strictly    *)
(* inside the beam and where two elements meet                             *)
C7_Witness ==
    /\ call.op = "from_abstract_element" /\ err = "none"
    /\ LET b == call.beam_idx
           uids == NodeUids(abm, b)
           pds == point_loads_of(b)
       IN  /\ Len(pds) = 2
           /\ call.k > 1
           /\ \A i \in 1..2 :
                 /\ Pos(uids, pds[i].at) \notin {0, 1, Len(uids)}
                 /\ get_by_uid(abm, b, pds[i].at) = call.k
           /\ ret.load_vector_glob[1] = 2 * pds[1].load[1]
           /\ abm.beams[b][call.k - 1].point_load = <<>>

(* the load vector add_point_load builds from the model's definitions *)
RECURSIVE ModelLoads(_, _, _, _)
ModelLoads(T3, acc, pds, elem) ==
    IF pds = <<>> THEN acc
    ELSE ModelLoads(T3,
             add_point_load(T3, acc, Head(pds).load, EndpointOf(elem, Head(pds).at),
                            dict_get(Head(pds), "local_sys", FALSE)),
             Tail(pds), elem)

(* C8: the load vector of an element is the sum of the model's point loads *)
(* at its nodes, each pre-multiplied by T when the model gives local_sys = *)
(* true and unrotated when local_sys is false or absent.                   *)
C8_LocalSysRotated ==
    (call.op = "from_abstract_element" /\ err = "none") =>
        ret.load_vector_glob
            = ModelLoads(ret.T3, <<0, 0, 0, 0, 0, 0, 0, 0, 0, 0, 0, 0>>,
                         AttachedTo(call.beam_idx, call.k),
                         abm.beams[call.beam_idx][call.k])

(* the offsets of the symbols the schema accepts, 'all' apart *)
SchemaOffset == [ux |-> 0, uy |-> 1, uz |-> 2, thx |-> 3, thy |-> 4, thz |-> 5]

(* C9: fixing one symbol of the schema at node k gives one row whose only  *)
(* non-zero entry is a 1 at column 6*k + offset; 'all' gives the six rows  *)
(* of the identity on columns 6k..6k+5.                                    *)
C9_FixRows ==
    (call.op = "fix_dof" /\ Len(call.dof_constraints) = 1
        /\ call.dof_constraints[1] \in allowed_items) =>
        LET sym == call.dof_constraints[1]
            k == call.node_number
        IN  /\ err = "none"
            /\ IF sym = "all"
               THEN /\ Len(ret) = 6
                    /\ \A i \in 1..6 : \A j \in 1..call.total_ndof :
                          ret[i][j] = IF j = 6*k + i THEN 1 ELSE 0
               ELSE /\ Len(ret) = 1
                    /\ \A j \in 1..call.total_ndof :
                          ret[1][j] = IF j = 6*k + SchemaOffset[sym] + 1 THEN 1 ELSE 0

(* row i of B times the displacement vector U *)
RowDot(row, U) == SumSeq([j \in 1..Len(row) |-> row[j] * U[j]])

(* the displacement in which node B moves by (u, theta) and node A is its  *)
(* rigid extension with arm D; every other node is at rest                 *)
RigidMotion(nodeA, nodeB, u, theta, D, ndof) ==
    LET uA == <<u[1] + theta[2]*D[3] - theta[3]*D[2],
                u[2] + theta[3]*D[1] - theta[1]*D[3],
                u[3] + theta[1]*D[2] - theta[2]*D[1]>>
    IN  [j \in 1..ndof |->
            LET node == (j - 1) \div 6
                c == ((j - 1) % 6) + 1
            IN  IF node = nodeA THEN (IF c <= 3 THEN uA[c] ELSE theta[c - 3])
                ELSE IF node = nodeB THEN (IF c <= 3 THEN u[c] ELSE theta[c - 3])
                ELSE 0]

SmallVectors == {<<0, 0, 0>>, <<1, 0, 0>>, <<0, 1, 0>>, <<0, 0, 1>>, <<1, -2, 3>>}

(* C10: for two nodes A and B, connect gives six rows that are zero        *)
(* outside the blocks of A and B, the identity on A's block, minus         *)
(* identity plus the moment-arm entries of D = x_A - x_B on B's block, and *)
(* every common rigid-body motion of A and B satisfies B*U = 0.            *)
C10_ConnectRows ==
    (call.op = "connect" /\ call.node1_number # call.node2_number) =>
        LET A == call.node1_number
            B == call.node2_number
            D == <<call.x1[1] - call.x2[1], call.x1[2] - call.x2[2],
                   call.x1[3] - call.x2[3]>>
            arm == << <<0, 0, 0, 0, -D[3], D[2]>>,
                      <<0, 0, 0, D[3], 0, -D[1]>>,
                      <<0, 0, 0, -D[2], D[1], 0>>,
                      <<0, 0, 0, 0, 0, 0>>,
                      <<0, 0, 0, 0, 0, 0>>,
                      <<0, 0, 0, 0, 0, 0>> >>
            eye(i, c) == IF i = c THEN 1 ELSE 0
        IN  /\ Len(ret) = 6
            /\ \A i \in 1..6 : \A j \in 1..call.ndof :
                  LET node == (j - 1) \div 6
                      c == ((j - 1) % 6) + 1
                  IN  ret[i][j] = IF node = A THEN eye(i, c)
                                  ELSE IF node = B THEN arm[i][c] - eye(i, c)
                                  ELSE 0
            /\ \A u \in SmallVectors, theta \in SmallVectors : \A i \in 1..6 :
                  RowDot(ret[i], RigidMotion(A, B, u, theta, D, call.ndof)) = 0

(* two nodes apart in all three directions *)
C10_Witness ==
    /\ call.op = "connect"
    /\ call.node1_number # call.node2_number
    /\ call.x1 = <<1, 2, 3>> /\ call.x2 = <<0, 0, 0>>
    /\ ret[1][6*call.node2_number + 5] = -3
    /\ ret[3][6*call.node2_number + 4] = -2

(* the DOF offsets a fix list of the schema names *)
FixedOffsets(fix) ==
    IF \E i \in 1..Len(fix) : fix[i] = "all" THEN 0..5
    ELSE {SchemaOffset[fix[i]] : i \in 1..Len(fix)}

(* C11: a connect entry couples exactly the DOFs its fix list names: one   *)
(* row per named DOF, with its 1 on that DOF of node 1; six rows only for  *)
(* 'all' or a list of all six.                                             *)
C11_ConnectFixList ==
    (call.op = "apply_connect") =>
        LET dofs == FixedOffsets(call.connection.fix)
            A == call.connection.node1
            coupled == {c \in 0..5 : \E i \in 1..Len(ret) : ret[i][6*A + c + 1] # 0}
        IN  /\ Len(ret) = Cardinality(dofs)
            /\ coupled = dofs

(* fewer than two support points, or two consecutive ones that coincide *)
Degenerate(sup_points) ==
    \/ Len(sup_points) < 2
    \/ \E k \in 1..(Len(sup_points) - 1) : sup_points[k][2] = sup_points[k+1][2]

(* C18: add_beam_line raises for a beam with fewer than two support        *)
(* points and for one with two coinciding consecutive support points, and  *)
(* the mesh gets no elements, labels, named nodes or node numbers of that  *)
(* beam.                                                                   *)
C18_MeshingFails ==
    [][(call'.op = "add_beam_line" /\ Degenerate(call'.sup_points)) =>
          /\ err' # "none"
          /\ ret' = None
          /\ abm'.beams = abm.beams
          /\ abm'.uids = abm.uids
          /\ abm'.named_nodes = abm.named_nodes
          /\ abm'.glob_nums = abm.glob_nums]_vars

(* a second beam of three support points, the last two coinciding, was     *)
(* refused and the first beam is the only one of the mesh                  *)
C18_Witness ==
    /\ call.op = "add_beam_line"
    /\ Len(call.sup_points) = 3
    /\ call.sup_points[2][2] = call.sup_points[3][2]
    /\ err = "AssertionError"
    /\ abm.num_beams = 1
    /\ DOMAIN abm.beams = {0}

(* ======================================================================= *)
(* Result projection (solve)                                               *)
(* ======================================================================= *)

(* U[start::step, ] of an n x 1 array: its rows start, start+step, ...     *)
(* (0-based), each row a sequence of one entry                             *)
RECURSIVE strided(_, _, _)
strided(U, start, step) ==
    IF start >= Len(U) THEN <<>>
    ELSE <<U[start + 1]>> \o strided(U, start + step, step)

(* a variant that takes every third row *)
dissect_stride3(U, c) == Flatten(strided(U, c, 3))

(* U[c::6, ].flatten() *)
dissect(U, c) == Flatten(strided(U, c, 6))

(* the value stored under 'comp:U' *)
comp_U(U) ==
    [ux |-> dissect(U, 0), uy |-> dissect(U, 1), uz |-> dissect(U, 2),
     thx |-> dissect(U, 3), thy |-> dissect(U, 4), thz |-> dissect(U, 5)]

(* entries of the displacement vectors that are drawn: i -> a*i*i + b*i + s *)
(* modulo USpan                                                            *)
USpan == 7

ColumnU(nn, a, b, s) ==
    LET n == DOF_PER_NODE * nn
    IN  [i \in 1..n |-> <<(a*i*i + b*i + s) % USpan>>]

(* the second half of solve: U is split into its six components *)
Dissect ==
    /\ call.op = "init"
    /\ \E nn \in 0..MaxBCNodes, a \in 0..2, b \in 0..(USpan - 1), s \in 0..(USpan - 1) :
          LET U == ColumnU(nn, a, b, s)
          IN  /\ call' = [op |-> "dissect", U |-> U]
              /\ err' = "none"
              /\ ret' = comp_U(U)
              /\ UNCHANGED <<abm, mdl>>

NextDissect == Dissect

SpecDissect == Init /\ [][NextDissect]_vars

(* the component names in DOF order *)
comp_keys == <<"ux", "uy", "uz", "thx", "thy", "thz">>

(* the vector whose entry 6*i + c is entry i of component c *)
interleave(comp) ==
    [j \in 1..(DOF_PER_NODE * Len(comp.ux)) |->
        comp[comp_keys[((j - 1) % DOF_PER_NODE) + 1]][((j - 1) \div DOF_PER_NODE) + 1]]

(* C19: the six components of U have length n/6, component c holds the    *)
(* entries c, c+6, c+12, ... of U, and interleaving the six components     *)
(* gives U back entry for entry.                                           *)
C19_SplitInterleave ==
    (call.op = "dissect") =>
        LET n == Len(call.U)
        IN  /\ DOMAIN ret = {comp_keys[c] : c \in 1..DOF_PER_NODE}
            /\ \A c \in 0..(DOF_PER_NODE - 1) :
                  LET part == ret[comp_keys[c + 1]]
                  IN  /\ Len(part) = n \div DOF_PER_NODE
                      /\ \A i \in 0..((n \div DOF_PER_NODE) - 1) :
                            part[i + 1] = call.U[DOF_PER_NODE*i + c + 1][1]
            /\ interleave(ret) = [i \in 1..n |-> call.U[i][1]]

(* a vector of two nodes whose twelve entries are not all equal *)
C19_Witness ==
    /\ call.op = "dissect"
    /\ Len(call.U) = 2 * DOF_PER_NODE
    /\ \E i \in 1..Len(call.U) : call.U[i] # call.U[1]
    /\ ret.thz = <<call.U[6][1], call.U[12][1]>>

(* ======================================================================= *)
(* Element.shape_function_matrix                                           *)
(* ======================================================================= *)

(* a variant of M6 with the quadratic coefficient 2 *)
shape_M6_coeff2(xi) == FAdd(FMul(FInt(-2), xi), FMul(FInt(2), FMul(xi, xi)))

(* M6 = -2*xi + 3*xi**2 *)
shape_M6(xi) == FAdd(FMul(FInt(-2), xi), FMul(FInt(3), FMul(xi, xi)))

(* the 6 x 12 matrix N for an element of length L > 0, or the exception *)
shape_function_matrix(L, xi) ==
    IF ~(FLeq(F0, xi) /\ FLeq(xi, F1)) THEN [err |-> "ValueError", N |-> None]
    ELSE
    LET xi2 == FMul(xi, xi)
        xi3 == FMul(xi2, xi)
        N1 == FSub(F1, xi)
        N2 == xi
        N3 == FAdd(FSub(F1, FMul(FInt(3), xi2)), FMul(FInt(2), xi3))
        N4 == FSub(FMul(FInt(3), xi2), FMul(FInt(2), xi3))
        N5 == FMul(L, FAdd(FSub(xi, FMul(FInt(2), xi2)), xi3))
        N6 == FMul(L, FAdd(FNeg(xi2), xi3))
        M1 == FSub(F1, xi)
        M2 == xi
        M3 == FMul(FNeg(FDiv(FInt(6), L)), FSub(xi, xi2))
        M4 == FMul(FDiv(FInt(6), L), FSub(xi, xi2))
        M5 == FAdd(FSub(F1, FMul(FInt(4), xi)), FMul(FInt(3), xi2))
        M6 == shape_M6(xi)
        o == F0
    IN  [err |-> "none",
         N |-> << <<N1, o, o, o, o, o,          N2, o, o, o, o, o>>,
                  <<o, N3, o, o, o, N5,         o, N4, o, o, o, N6>>,
                  <<o, o, N3, o, FNeg(N5), o,   o, o, N4, o, FNeg(N6), o>>,
                  <<o, o, o, M1, o, o,          o, o, o, M2, o, o>>,
                  <<o, o, M3, o, M5, o,         o, o, M4, o, M6, o>> ,
                  <<o, FNeg(M3), o, o, o, M5,   o, FNeg(M4), o, o, o, M6>> >>]

(* element lengths and relative coordinates that are drawn *)
LengthSet == {Frac(n, d) : n \in {1, 2, 5, 7, 25}, d \in {1, 2, 3, 10}}
XiSet == {Frac(n, d) : n \in -1..5, d \in {1, 2, 4}}

ShapeFunctionMatrix ==
    /\ call.op = "init"
    /\ \E L \in LengthSet, xi \in XiSet :
          LET r == shape_function_matrix(L, xi)
          IN  /\ call' = [op |-> "shape_function_matrix", L |-> L, xi |-> xi]
              /\ err' = r.err
              /\ ret' = r.N
              /\ UNCHANGED <<abm, mdl>>

NextShape == ShapeFunctionMatrix

SpecShape == Init /\ [][NextShape]_vars

(* the 6 x 6 block of N that starts at column c0 + 1 *)
Block(N, c0) == [i \in 1..6 |-> [j \in 1..6 |-> N[i][c0 + j]]]

Identity6 == [i \in 1..6 |-> [j \in 1..6 |-> IF i = j THEN F1 ELSE F0]]

Zeros6 == [i \in 1..6 |-> [j \in 1..6 |-> F0]]

(* C20: for an element of any positive length shape_function_matrix(0) is  *)
(* the identity on the columns of node 1 and zero on those of node 2, and  *)
(* shape_function_matrix(1) is zero on the columns of node 1 and the       *)
(* identity on those of node 2.                                            *)
C20_ShapeAtEnds ==
    (call.op = "shape_function_matrix") =>
        /\ (call.xi = F0) => /\ err = "none"
                            /\ Block(ret, 0) = Identity6
                            /\ Block(ret, 6) = Zeros6
        /\ (call.xi = F1) => /\ err = "none"
                            /\ Block(ret, 0) = Zeros6
                            /\ Block(ret, 6) = Identity6

(* the matrix at xi = 1 of an element of length 7/3 *)
C20_Witness ==
    /\ call.op = "shape_function_matrix"
    /\ call.L = <<7, 3>>
    /\ call.xi = F1
    /\ ret[5][11] = F1
    /\ ret[5][3] = F0

(* ======================================================================= *)
(* Local axes for arbitrary 'up' vectors                                   *)
(* ======================================================================= *)

(* the test at the head of get_local_system_from_up; on integer vectors    *)
(* the tolerance 1e-10 is equality                                         *)
up_is_rejected(x_elem, up) == Abs(1 - Abs(Dot(x_elem, up))) = 0

(* unit axes of elements along the coordinate axes, and the 'up' vectors   *)
(* the schema admits (any three numbers), here with entries in -2..2       *)
AxisSet == {G_X, G_Y, G_Z, <<-1, 0, 0>>, <<0, -1, 0>>, <<0, 0, -1>>}
UpVectors == {<<a, b, c>> : a \in -2..2, b \in -2..2, c \in -2..2} \ {Origin}

(* get_local_system_from_up(x_elem, up).  The axes are returned as         *)
(* directions, i.e. up to the positive factor unit_vector divides by.  For *)
(* a rejection of zero unit_vector divides 0 by 0: the library function    *)
(* either returns a vector of nan or raises.                               *)
GetLocalSystemFromUp ==
    /\ call.op = "init"
    /\ \E x_elem \in AxisSet, up \in UpVectors :
          LET z_dir == vector_rejection(up, x_elem)
              y_dir == cross(z_dir, x_elem)
          IN  /\ call' = [op |-> "get_local_system_from_up",
                          x_elem |-> x_elem, up |-> up]
              /\ IF up_is_rejected(x_elem, up)
                 THEN err' = "ValueError" /\ ret' = None
                 ELSE IF z_dir = Origin
                 THEN \/ err' = "none" /\ ret' = <<"nan", "nan">>
                      \/ err' = "ZeroDivisionError" /\ ret' = None
                 ELSE err' = "none" /\ ret' = <<y_dir, z_dir>>
              /\ UNCHANGED <<abm, mdl>>

NextAxes == GetLocalSystemFromUp

SpecAxes == Init /\ [][NextAxes]_vars

(* C17: get_local_system_from_up raises exactly when 'up' is parallel to   *)
(* the element axis: a parallel 'up' of any length is rejected, and no     *)
(* 'up' that is not parallel is rejected.                                  *)
C17_ParallelUpRejected ==
    (call.op = "get_local_system_from_up") =>
        ((err # "none") <=> (cross(call.x_elem, call.up) = Origin))

(* ======================================================================= *)
(* Assembly of the system matrices and solution of the static problem      *)
(* ======================================================================= *)

RECURSIVE FSum(_)
FSum(s) ==
    Let(Eager(s), LAMBDA t : IF t = <<>> THEN F0 ELSE FAdd(Head(t), FSum(Tail(t))))

Zeros(n) == Eager([j \in 1..n |-> F0])

(* the missing property that makes stiffness_matrix_local fail: a product  *)
(* with None is a TypeError                                                *)
stiffness_err(properties) ==
    IF \E p \in {"E", "G", "A", "Iy", "Iz", "J"} : properties[p] = None
    THEN "TypeError" ELSE "none"

(* element.stiffness_matrix_glob of an element built by                    *)
(* from_abstract_element                                                   *)
element_stiffness_matrix_glob(element) ==
    Let(stiffness_matrix_local(element.properties, element.length), LAMBDA k_elem :
        stiffness_matrix_glob(element.T3, k_elem))

(* create_system_matrices, the loop over the elements of one beam:         *)
(* K_beam[k:k+12, k:k+12] += element.stiffness_matrix_glob with k = 0, 6,  *)
(* 12, ...                                                                 *)
K_beam(elements) ==
    Let(Eager([e \in 1..Len(elements) |-> element_stiffness_matrix_glob(elements[e])]),
        LAMBDA kg :
    LET ne == Len(kg)
        ndof == 6 * (ne + 1)
        node(i) == (i - 1) \div 6
        entry(i, j) ==
            LET lo == Max(Max(node(i), node(j)), 1)
                hi == IF node(i) + 1 < node(j) + 1 THEN node(i) + 1 ELSE node(j) + 1
                top == IF hi > ne THEN ne ELSE hi
            IN  FSum([x \in 1..(top - lo + 1) |->
                        kg[lo + x - 1][i - 6*(lo + x - 2)][j - 6*(lo + x - 2)]])
    IN  Eager([i \in 1..ndof |-> Eager([j \in 1..ndof |-> entry(i, j)])]))

(* F_beam[k:k+12] += element.load_vector_glob *)
F_beam(elements) ==
    LET ne == Len(elements)
        ndof == 6 * (ne + 1)
        node(i) == (i - 1) \div 6
        entry(i) ==
            LET lo == Max(node(i), 1)
                top == IF node(i) + 1 > ne THEN ne ELSE node(i) + 1
            IN  FSum([x \in 1..(top - lo + 1) |->
                        FInt(elements[lo + x - 1].load_vector_glob[i - 6*(lo + x - 2)])])
    IN  Eager([i \in 1..ndof |-> <<entry(i)>>])

(* a variant of the paste loop that pastes the beams from the last to the  *)
(* first                                                                   *)
RECURSIVE block_diag_reversed(_)
block_diag_reversed(mats) ==
    IF mats = <<>> THEN <<>>
    ELSE Let(block_diag_reversed(Tail(mats)), LAMBDA R :
         LET A == Head(mats)
             na == Len(A)
             nr == Len(R)
         IN  Eager([i \in 1..nr |-> R[i] \o Zeros(na)])
             \o Eager([i \in 1..na |-> Zeros(nr) \o A[i]]))

(* the paste loop: the matrices of the beams on the diagonal of K *)
RECURSIVE block_diag(_)
block_diag(mats) ==
    IF mats = <<>> THEN <<>>
    ELSE Let(block_diag(Tail(mats)), LAMBDA R :
         LET A == Head(mats)
             na == Len(A)
             nr == Len(R)
         IN  Eager([i \in 1..na |-> A[i] \o Zeros(nr)])
             \o Eager([i \in 1..nr |-> Zeros(na) \o R[i]]))

(* one step of the elimination on column c with the pivot row p: row c     *)
(* becomes the pivot row divided by the pivot, the other rows lose their   *)
(* entry in column c                                                       *)
eliminate(rows, c, p) ==
    Let(Eager([j \in 1..(Len(rows) + 1) |-> FDiv(rows[p][j], rows[p][c])]), LAMBDA prow :
        LET reduce(src) ==
                IF src[c] = F0 THEN src
                ELSE Eager([j \in 1..(Len(rows) + 1) |->
                               FSub(src[j], FMul(src[c], prow[j]))])
        IN  Eager([r \in 1..Len(rows) |->
                IF r = c THEN prow
                ELSE IF r = p THEN reduce(rows[c])
                ELSE reduce(rows[r])]))

(* np.linalg.solve(A, x) in exact arithmetic, by Gauss-Jordan elimination  *)
(* on the rows of [A | x] from column c on: the solution, or LinAlgError   *)
(* for a singular matrix                                                   *)
RECURSIVE gauss_jordan(_, _)
gauss_jordan(M, c) ==
    Let(M, LAMBDA rows :
    LET n == Len(rows)
        cand == {r \in c..n : rows[r][c] # F0}
    IN  IF c > n
        THEN [err |-> "none", solution |-> Eager([i \in 1..n |-> <<rows[i][n + 1]>>])]
        ELSE IF cand = {} THEN [err |-> "LinAlgError", solution |-> None]
        ELSE gauss_jordan(
                 eliminate(rows, c, CHOOSE r \in cand : \A q \in cand : r <= q),
                 c + 1))

linalg_solve(A, x) ==
    gauss_jordan(Eager([i \in 1..Len(A) |-> A[i] \o x[i]]), 1)

(* a variant of the system without the constraint block: K U = F *)
static_load_analysis_unconstrained(K, B, F) ==
    Let(linalg_solve(K, F), LAMBDA s :
        IF s.err # "none" THEN [err |-> s.err, U |-> None, F_react |-> None]
        ELSE [err |-> "none", U |-> s.solution, F_react |-> <<>>])

(* static_load_analysis: [[K, B.T], [B, Z]] [U; F_react] = [F; b] with     *)
(* b = 0; K and F hold fractions, B holds integers                         *)
static_load_analysis(K, B, F) ==
    LET ndof == Len(K)
        n_lr == Len(B)
        A_system ==
            Eager([i \in 1..ndof |-> K[i] \o Eager([r \in 1..n_lr |-> FInt(B[r][i])])])
            \o Eager([r \in 1..n_lr |->
                        Eager([j \in 1..ndof |-> FInt(B[r][j])]) \o Zeros(n_lr)])
        x_system == F \o Eager([r \in 1..n_lr |-> <<F0>>])
    IN  Let(linalg_solve(A_system, x_system), LAMBDA s :
            IF s.err # "none" THEN [err |-> s.err, U |-> None, F_react |-> None]
            ELSE [err |-> "none",
                  U |-> SubSeq(s.solution, 1, ndof),
                  F_react |-> SubSeq(s.solution, ndof + 1, ndof + n_lr)])

(* ======================================================================= *)
(* The run of a model: mesh, element matrices, constraints, solution       *)
(* ======================================================================= *)

(* the loops of create_mesh over the orientation, material and             *)
(* cross_section definitions of a beam; features holds the records of the  *)
(* model the definitions refer to by uid                                   *)
RECURSIVE set_ranges(_, _, _, _, _)
set_ranges(m, b, pdefs, kind, features) ==
    IF pdefs = <<>> THEN [err |-> "none", abm |-> m]
    ELSE Let(iter_from_to(m, b, Head(pdefs).from, Head(pdefs).to, "ValueError"),
             LAMBDA r :
         LET pdef == Head(pdefs)
             upd(elem) ==
                 IF kind = "orientation" THEN [elem EXCEPT !.up = pdef.up]
                 ELSE [elem EXCEPT !.props = features[pdef.uid] @@ @]
         IN  IF r.err # "none" THEN [err |-> r.err, abm |-> m]
             ELSE Let([m EXCEPT !.beams[b] =
                          Eager([k \in 1..Len(@) |->
                                    IF \E i \in 1..Len(r.elems) : r.elems[i] = k
                                    THEN upd(@[k]) ELSE @[k]])],
                      LAMBDA m_set : set_ranges(m_set, b, Tail(pdefs), kind, features)))

(* the loop of create_mesh over the point_load definitions of a beam *)
RECURSIVE set_point_loads(_, _, _)
set_point_loads(m, b, pdefs) ==
    IF pdefs = <<>> THEN [err |-> "none", abm |-> m]
    ELSE Let(get_by_uid(m, b, Head(pdefs).at), LAMBDA k :
         LET pdef == Head(pdefs)
         IN  IF k = 0 THEN [err |-> "KeyError", abm |-> m]
             ELSE LET node_id == IF m.beams[b][k].p1.uid = pdef.at THEN 1 ELSE 2
                      entry == [load |-> pdef.load, node |-> node_id,
                                local_sys |-> FALSE]
                  IN  Let([m EXCEPT !.beams[b][k].point_load = Append(@, entry)],
                          LAMBDA m_set : set_point_loads(m_set, b, Tail(pdefs))))

(* the definitions of one beam of the model applied to the beam line just  *)
(* added to the mesh m1: orientation, material, cross_section, point_load  *)
set_beam_properties(model, mbeam, m1) ==
    Let(set_ranges(m1, m1.num_beams, mbeam.orientation, "orientation", <<>>),
        LAMBDA r1 :
    IF r1.err # "none" THEN r1
    ELSE
    Let(set_ranges(r1.abm, m1.num_beams, mbeam.material, "material", model.material),
        LAMBDA r2 :
    IF r2.err # "none" THEN r2
    ELSE
    Let(set_ranges(r2.abm, m1.num_beams, mbeam.cross_section, "cross_section",
                   model.cross_section),
        LAMBDA r3 :
    IF r3.err # "none" THEN r3
    ELSE set_point_loads(r3.abm, m1.num_beams, mbeam.point_load))))

(* create_mesh(m), from beam i of the model on: the mesh, or the exception *)
(* that ends it.  The beams of the models here have no distributed loads   *)
(* and no point masses.                                                    *)
RECURSIVE create_mesh_from(_, _, _)
create_mesh_from(model, i, m) ==
    IF i > Len(model.beam) THEN [err |-> "none", abm |-> m]
    ELSE
    LET mbeam == model.beam[i]
        e == add_beam_line_err(mbeam.node, mbeam.nelem)
    IN  IF e # "none" THEN [err |-> e, abm |-> add_beam_line_raise(m)]
        ELSE
        Let(add_beam_line(m, mbeam.node, mbeam.nelem), LAMBDA m1 :
        Let(set_beam_properties(model, model.beam[i], m1), LAMBDA r4 :
            IF r4.err # "none" THEN r4
            ELSE create_mesh_from(model, i + 1, r4.abm)))

create_mesh(model) == create_mesh_from(model, 1, AbstractBeamMesh_init)

(* the elements of one beam of the mesh, or the first exception *)
beam_elements(m, b) ==
    Let(Eager([k \in 1..Len(m.beams[b]) |-> from_abstract_element(m.beams[b][k])]),
        LAMBDA els :
    LET bad == {k \in 1..Len(els) : els[k].err # "none"}
        noprop == {k \in 1..Len(els) : els[k].err = "none"
                                       /\ stiffness_err(els[k].properties) # "none"}
    IN  IF bad # {} THEN [err |-> els[CHOOSE k \in bad : \A q \in bad : k <= q].err,
                          elements |-> <<>>]
        ELSE IF noprop # {} THEN [err |-> "TypeError", elements |-> <<>>]
        ELSE [err |-> "none", elements |-> els])

(* create_system_matrices: K, M and F of the whole mesh.  M is the sum of  *)
(* the elements' mass_matrix_glob, which Element.__init__ sets to zeros    *)
(* and nothing changes.                                                    *)
create_system_matrices(m) ==
    Let(Eager([i \in 1..(m.num_beams + 1) |-> beam_elements(m, i - 1)]),
        LAMBDA per_beam :
    LET nb == Len(per_beam)
        bad == {i \in 1..nb : per_beam[i].err # "none"}
    IN  IF bad # {}
        THEN [err |-> per_beam[CHOOSE i \in bad : \A q \in bad : i <= q].err]
        ELSE Let(Eager([i \in 1..nb |-> K_beam(per_beam[i].elements)]), LAMBDA Ks :
             Let(block_diag(Ks), LAMBDA K :
                 [err |-> "none",
                  K |-> K,
                  M |-> Eager([i \in 1..Len(K) |-> Zeros(Len(K))]),
                  F |-> Flatten(Eager([i \in 1..nb |->
                                         F_beam(per_beam[i].elements)]))])))

(* create_bc_matrices: B = fix_dof(0, ndof, ['all']) *)
create_bc_matrices(ndof) == fix_dof(0, ndof, <<"all">>).B

(* the stages of run_model after the meshing: Assembling matrices,         *)
(* Solving, Post-processing on the mesh m                                  *)
run_stages(m) ==
    Let(create_system_matrices(m), LAMBDA r2 :
        IF r2.err # "none" THEN [err |-> r2.err, results |-> ("abm" :> m)]
        ELSE
        Let(create_bc_matrices(ndofs(m)), LAMBDA B :
        Let(static_load_analysis(r2.K, B, r2.F), LAMBDA r4 :
            LET res3 == [K |-> r2.K, M |-> r2.M, F |-> r2.F, B |-> B] @@ ("abm" :> m)
            IN  IF r4.err # "none" THEN [err |-> r4.err, results |-> res3]
                ELSE Let(comp_U(r4.U), LAMBDA cu :
                         [err |-> "none",
                          results |-> [U |-> r4.U, F_react |-> r4.F_react,
                                       comp_U |-> cu] @@ res3]))))

(* run_model: the stages in the order Meshing, Assembling matrices,        *)
(* Solving, Post-processing.  results maps each name written so far to its *)
(* value; a stage that raises ends the run and leaves results as it is.    *)
run_model(model) ==
    Let(create_mesh(model), LAMBDA r1 :
        IF r1.err # "none" THEN [err |-> r1.err, results |-> <<>>]
        ELSE run_stages(r1.abm))

(* ----- the models that are run ----- *)
UnitMaterial == [E |-> F1, G |-> F1, rho |-> F1]
StiffMaterial == [E |-> FInt(2), G |-> F1, rho |-> F1]
UnitSection == [A |-> F1, Iy |-> F1, Iz |-> F1, J |-> F1]

(* a cantilever of length 1 and a beam of length 2 with a node in the      *)
(* middle, both along X                                                    *)
Layouts ==
    {<< <<"root", Origin>>, <<"tip", <<1, 0, 0>>>> >>,
     << <<"root", Origin>>, <<"mid", <<1, 0, 0>>>>, <<"tip", <<2, 0, 0>>>> >>}

RunLoads == {<<0, 0, -1, 0, 0, 0>>, <<1, 0, 0, 0, 0, 0>>, <<0, 2, 0, 0, 0, 1>>}

FixLists ==
    {<<[node |-> "root", fix |-> <<"all">>]>>,
     <<[node |-> "tip", fix |-> <<"all">>]>>,
     <<[node |-> "root", fix |-> <<"all">>], [node |-> "tip", fix |-> <<"uz">>]>>}

Covers == {"full", "no_material", "no_cross_section", "no_orientation",
           "part_material", "parallel_up"}

(* the model with one beam: its nodes, nelem, which definitions cover the  *)
(* beam, a point load and the fix list                                     *)
ModelOf(nodes, nelem, cover, at, load, fix, mat) ==
    LET first == nodes[1][1]
        last == nodes[Len(nodes)][1]
        whole == [from |-> first, to |-> last]
        part == [from |-> first, to |-> nodes[2][1]]
    IN  [beam |-> <<[node |-> nodes,
                     nelem |-> nelem,
                     orientation |->
                         IF cover = "no_orientation" THEN <<>>
                         ELSE IF cover = "parallel_up"
                         THEN <<whole @@ [up |-> G_X]>>
                         ELSE <<whole @@ [up |-> G_Z]>>,
                     material |->
                         IF cover = "no_material" THEN <<>>
                         ELSE IF cover = "part_material"
                         THEN <<part @@ [uid |-> "dummy"]>>
                         ELSE <<whole @@ [uid |-> "dummy"]>>,
                     cross_section |->
                         IF cover = "no_cross_section" THEN <<>>
                         ELSE <<whole @@ [uid |-> "dummy"]>>,
                     point_load |-> <<[at |-> at, load |-> load]>>]>>,
         material |-> [dummy |-> mat],
         cross_section |-> [dummy |-> UnitSection],
         bc |-> [fix |-> fix]]

Models ==
    {ModelOf(nodes, nelem, "full", at, load, fix, UnitMaterial) :
        nodes \in Layouts, nelem \in 1..MaxN, at \in {"root", "tip"},
        load \in RunLoads, fix \in FixLists}
    \cup
    {ModelOf(nodes, nelem, cover, "tip", <<0, 0, -1, 0, 0, 0>>,
             <<[node |-> "root", fix |-> <<"all">>]>>, mat) :
        nodes \in Layouts, nelem \in 1..MaxN, cover \in Covers,
        mat \in {UnitMaterial, StiffMaterial}}

(* the user describes a model *)
DefineModel ==
    /\ call.op = "init"
    /\ \E model \in Models :
          /\ mdl' = model
          /\ call' = [op |-> "model"]
          /\ UNCHANGED <<abm, err, ret>>

(* the number of times a model is run *)
MaxRuns == 2

(* model.run(): ret is model.results afterwards, err the exception that    *)
(* reached the caller; prev keeps the results of the run before            *)
Run ==
    /\ call.op \in {"model", "run"}
    /\ call.op = "run" => call.count < MaxRuns
    /\ \E r \in {run_model(mdl)} :
           /\ call' = [op |-> "run",
                       count |-> IF call.op = "run" THEN call.count + 1 ELSE 1,
                       prev |-> IF call.op = "run" THEN ret ELSE <<>>]
           /\ err' = r.err
           /\ ret' = r.results
           /\ UNCHANGED <<abm, mdl>>

NextRun == DefineModel \/ Run

SpecRun == Init /\ [][NextRun]_vars

(* ======================================================================= *)
(* Properties of a run                                                     *)
(* ======================================================================= *)

(* the unit cantilever of the cantilever test with nelem elements *)
UnitCantilever(nelem) ==
    ModelOf(<< <<"root", Origin>>, <<"tip", <<1, 0, 0>>>> >>, nelem, "full", "tip",
            <<0, 0, -1, 0, 0, 0>>, <<[node |-> "root", fix |-> <<"all">>]>>,
            UnitMaterial)

(* the six displacement components of the node with the uid in results *)
node_deform(results, uid) ==
    LET k == results.abm.glob_nums[uid] + 1
    IN  [c \in {comp_keys[i] : i \in 1..Len(comp_keys)} |-> results.comp_U[c][k]]

dof_offset == [ux |-> 0, uy |-> 1, uz |-> 2, thx |-> 3, thy |-> 4, thz |-> 5]

fixed_offsets(fix) ==
    UNION {IF fix[i] = "all" THEN 0..5 ELSE {dof_offset[fix[i]]} : i \in 1..Len(fix)}

mirror_point(point, plane) ==
    IF plane = "xy" THEN <<point[1], point[2], -point[3]>>
    ELSE IF plane = "xz" THEN <<point[1], -point[2], point[3]>>
    ELSE <<-point[1], point[2], point[3]>>

(* BeamLine.mirror_load: forces and moments mirrored like points *)
mirror_load(load, plane) ==
    mirror_point(SubSeq(load, 1, 3), plane) \o mirror_point(SubSeq(load, 4, 6), plane)

(* BeamLine._mirror_beamline without mirror_beamprops and mirror_loads:    *)
(* uid is the attribute of the new beam line; nodes, beamprops and loads   *)
(* are the objects of the definition, changed in place                     *)
mirror_beamline(bdef) ==
    LET uid_suffix == "_m"
    IN  [uid |-> bdef.uid \o uid_suffix,
         def |-> [bdef EXCEPT
            !.nodes = [k \in 1..Len(@) |->
                          [uid |-> @[k].uid \o uid_suffix,
                           coord |-> mirror_point(@[k].coord, bdef.symmetry),
                           up |-> mirror_point(@[k].up, bdef.symmetry)]],
            !.beamprops = [k \in 1..Len(@) |->
                              [from |-> @[k].from \o uid_suffix,
                               to |-> @[k].to \o uid_suffix]],
            !.loads = [k \in 1..Len(@) |->
                          [node |-> @[k].node \o uid_suffix,
                           load |-> mirror_load(@[k].load, bdef.symmetry)]]]]

(* a frame before its first beam line: the counters, the finder and the    *)
(* beam lines and concentrated loads so far                                *)
Frame_empty ==
    [beams |-> 0, elements |-> 0, by_uid |-> <<>>, beamlines |-> <<>>,
     conc |-> <<>>]

(* BeamLine.__init__ for a definition of two named nodes and nelem = 1:    *)
(* the mirroring, the book keeping, _make_elements, _add_beam_properties   *)
(* and _add_loads.  Returns the exception, the frame and the definition    *)
(* as the constructor leaves it.                                           *)
BeamLine_init(frame, bdef, make_mirror) ==
    LET m == IF make_mirror THEN mirror_beamline(bdef)
             ELSE [uid |-> bdef.uid, def |-> bdef]
        d == m.def
        beams == frame.beams + 1
        elements == frame.elements + 1
        last == elements + beams - 1
        node1 == [num |-> last - 1, uid |-> d.nodes[1].uid, xsi |-> 0,
                  coord |-> d.nodes[1].coord]
        node2 == [num |-> last, uid |-> d.nodes[2].uid, xsi |-> 1,
                  coord |-> d.nodes[2].coord]
        clash == \/ node1.uid \in DOMAIN frame.by_uid
                 \/ node2.uid \in DOMAIN frame.by_uid
                 \/ node1.uid = node2.uid
        by_uid == (node1.uid :> node1) @@ (node2.uid :> node2) @@ frame.by_uid
        unknown == \E k \in 1..Len(d.beamprops) :
                      \/ d.beamprops[k].from \notin DOMAIN by_uid
                      \/ d.beamprops[k].to \notin DOMAIN by_uid
        has_props == \E k \in 1..Len(d.beamprops) :
                        /\ by_uid[d.beamprops[k].from].xsi <= node2.xsi
                        /\ node2.xsi <= by_uid[d.beamprops[k].to].xsi
        known == SelectSeq(d.loads, LAMBDA e : e.node \in DOMAIN by_uid)
        conc == [k \in 1..Len(known) |->
                    [num |-> by_uid[known[k].node].num, load |-> known[k].load]]
        built == [uid |-> m.uid, nodes |-> <<node1, node2>>,
                  up |-> d.nodes[1].up, has_props |-> has_props]
    IN  IF clash THEN [err |-> "RuntimeError", frame |-> frame, def |-> d]
        ELSE IF unknown THEN [err |-> "KeyError", frame |-> frame, def |-> d]
        ELSE [err |-> "none",
              frame |-> [beams |-> beams, elements |-> elements, by_uid |-> by_uid,
                         beamlines |-> Append(frame.beamlines, built),
                         conc |-> frame.conc \o conc],
              def |-> d]

(* the loop of Frame.__init__ over beamline_definitions from entry i on:   *)
(* each definition gives a beam line and, if it has a symmetry, a mirrored *)
(* one built from the same definition                                      *)
RECURSIVE Frame_beamlines(_, _, _)
Frame_beamlines(defs, i, frame) ==
    IF i > Len(defs) THEN [err |-> "none", frame |-> frame, defs |-> defs]
    ELSE Let(BeamLine_init(frame, defs[i], FALSE), LAMBDA b1 :
         IF b1.err # "none"
         THEN [err |-> b1.err, frame |-> frame, defs |-> [defs EXCEPT ![i] = b1.def]]
         ELSE IF defs[i].symmetry = "None"
         THEN Frame_beamlines([defs EXCEPT ![i] = b1.def], i + 1, b1.frame)
         ELSE Let(BeamLine_init(b1.frame, b1.def, TRUE), LAMBDA b2 :
              IF b2.err # "none"
              THEN [err |-> b2.err, frame |-> b1.frame,
                    defs |-> [defs EXCEPT ![i] = b2.def]]
              ELSE Let([defs EXCEPT ![i] = b2.def], LAMBDA defs2 :
                       Frame_beamlines(defs2, i + 1, b2.frame))))

(* Frame._apply_boundary_conditions for the fix entries *)
RECURSIVE apply_fix(_, _, _)
apply_fix(frame, entries, B) ==
    IF entries = <<>> THEN [err |-> "none", B |-> B]
    ELSE LET entry == Head(entries)
         IN  IF entry.node \notin DOMAIN frame.by_uid THEN [err |-> "KeyError", B |-> B]
             ELSE LET r == fix_dof(frame.by_uid[entry.node].num,
                                   DOF_PER_NODE * (frame.elements + frame.beams),
                                   entry.fix)
                  IN  IF r.err # "none" THEN [err |-> r.err, B |-> B]
                      ELSE apply_fix(frame, Tail(entries), B \o r.B)

(* the global load vector of concentrated loads given in the global system *)
Frame_F(frame) ==
    LET n_nodes == frame.elements + frame.beams
        at(i) == SelectSeq(frame.conc, LAMBDA c : c.num = (i - 1) \div 6)
    IN  Eager([i \in 1..(DOF_PER_NODE * n_nodes) |->
                  LET cs == at(i)
                  IN  IF cs = <<>> THEN 0
                      ELSE cs[Len(cs)].load[((i - 1) % 6) + 1]])

(* standard_run(model = model): Frame(model['beamlines'],                  *)
(* model['boundary_conditions'], ...).  Returns the exception, what the    *)
(* global tensors are assembled from (the beam lines with their nodes,     *)
(* orientation and properties), F and B, and the model as the run leaves   *)
(* it.                                                                     *)
standard_run(model) ==
    Let(Frame_beamlines(model.beamlines, 1, Frame_empty), LAMBDA r :
    Let([model EXCEPT !.beamlines = r.defs], LAMBDA after :
        IF r.err # "none" THEN [err |-> r.err, frame |-> None, model |-> after]
        ELSE Let(apply_fix(r.frame, model.boundary_conditions.fix, <<>>), LAMBDA bc :
                 IF bc.err # "none"
                 THEN [err |-> bc.err, frame |-> None, model |-> after]
                 ELSE [err |-> "none",
                       frame |-> [beamlines |-> r.frame.beamlines,
                                  F |-> Frame_F(r.frame),
                                  B |-> bc.B],
                       model |-> after])))

(* ----- the models handed to standard_run ----- *)
TipCoords == {<<0, 1, 0>>, <<1, 1, 0>>, <<0, 2, 1>>}
(* the symmetry of a beam line definition: a plane, or "None" *)
Symmetries == {"None", "xy", "xz", "yz"}
WingLoads ==
    {<<>>, <<[node |-> "tip", load |-> <<0, 0, -1, 0, 0, 0>>]>>,
     <<[node |-> "tip", load |-> <<0, 1, 0, 1, 0, 0>>]>>}

Wing(tip, symmetry, loads) ==
    [uid |-> "wing", symmetry |-> symmetry,
     nodes |-> <<[uid |-> "root", coord |-> Origin, up |-> G_Z],
                 [uid |-> "tip", coord |-> tip, up |-> G_Z]>>,
     beamprops |-> <<[from |-> "root", to |-> "tip"]>>,
     loads |-> loads]

Strut ==
    [uid |-> "strut", symmetry |-> "None",
     nodes |-> <<[uid |-> "base", coord |-> <<0, 0, -1>>, up |-> G_X],
                 [uid |-> "top", coord |-> Origin, up |-> G_X]>>,
     beamprops |-> <<[from |-> "base", to |-> "top"]>>,
     loads |-> <<>>]

FrameModels ==
    {[beamlines |-> <<Wing(tip, symmetry, loads)>> \o rest,
      boundary_conditions |-> [fix |-> <<[node |-> node, fix |-> <<"all">>]>>]] :
        tip \in TipCoords, symmetry \in Symmetries, loads \in WingLoads,
        rest \in {<<>>, <<Strut>>}, node \in {"root", "base"}}

(* the user loads a model once *)
LoadModel ==
    /\ call.op = "init"
    /\ \E model \in FrameModels :
          /\ mdl' = model
          /\ call' = [op |-> "load", given |-> model]
          /\ UNCHANGED <<abm, err, ret>>

(* standard_run on the model object: ret is the frame, prev and prev_err   *)
(* keep the outcome of the run before, given the model as it was loaded    *)
StandardRun ==
    /\ call.op \in {"load", "standard_run"}
    /\ call.op = "standard_run" => call.count < MaxRuns
    /\ \E r \in {standard_run(mdl)} :
           /\ call' = [op |-> "standard_run",
                       count |-> IF call.op = "standard_run" THEN call.count + 1 ELSE 1,
                       prev |-> ret, prev_err |-> err, given |-> call.given]
           /\ err' = r.err
           /\ ret' = r.frame
           /\ mdl' = r.model
           /\ UNCHANGED abm

NextFrame == LoadModel \/ StandardRun

SpecFrame == Init /\ [][NextFrame]_vars

(* C14: a second run of the same model object ends as the first one did    *)
(* and its output (what K and M are assembled from, F and B, hence U) is   *)
(* the same; the run leaves the model description as it was given.         *)
C14_RunsRepeat ==
    (call.op = "standard_run" /\ call.count >= 2)
    => /\ err = call.prev_err
       /\ ret = call.prev
       /\ mdl = call.given

(* ======================================================================= *)
(* make_elements of the assembly module: elements created with defaults,   *)
(* then orientation, material and cross section set on the ranges given    *)
(* ======================================================================= *)

PropSet == {PROP_TYPES[i] : i \in 1..Len(PROP_TYPES)}

(* Element(p1, p2, up=[0, 0, 1]) with self.properties =                    *)
(* defaultdict(lambda: 1): the element of a pair of mesh points before     *)
(* anything is set on it; assigned names what has been set since           *)
Element_created(a) ==
    [p1 |-> a.p1, p2 |-> a.p2, up |-> G_Z, point_load |-> <<>>,
     props |-> [p \in PropSet |-> F1], assigned |-> {}]

(* the loop over one kind of definition of the beam: the elements of       *)
(* elem_lookup[(from, to)] get the orientation or the properties           *)
RECURSIVE set_on_lookup(_, _, _, _)
set_on_lookup(elements, pdefs, kind, values) ==
    IF pdefs = <<>> THEN [err |-> "none", elements |-> elements]
    ELSE Let(ElementLookup_missing(elements, Head(pdefs).from, Head(pdefs).to),
             LAMBDA r :
         LET pdef == Head(pdefs)
             hit(k) == \E i \in 1..Len(r.elems) : r.elems[i] = k
             upd(elem) ==
                 IF kind = "orientation"
                 THEN [elem EXCEPT !.up = pdef.up, !.assigned = @ \cup {"up"}]
                 ELSE [elem EXCEPT !.props = values[pdef.uid] @@ @,
                                   !.assigned = @ \cup DOMAIN values[pdef.uid]]
         IN  IF r.err # "none" THEN [err |-> r.err, elements |-> elements]
             ELSE Let(Eager([k \in 1..Len(elements) |->
                                IF hit(k) THEN upd(elements[k]) ELSE elements[k]]),
                      LAMBDA els_set : set_on_lookup(els_set, Tail(pdefs), kind, values)))

(* the definitions of the beam set on the elements created: orientation,   *)
(* material, cross_section                                                 *)
set_all_on_lookup(model, mbeam, created) ==
    Let(set_on_lookup(created, mbeam.orientation, "orientation", <<>>), LAMBDA r1 :
    IF r1.err # "none" THEN r1
    ELSE
    Let(set_on_lookup(r1.elements, mbeam.material, "material", model.material),
        LAMBDA r2 :
    IF r2.err # "none" THEN r2
    ELSE set_on_lookup(r2.elements, mbeam.cross_section, "cross_section",
                       model.cross_section)))

(* make_elements for the beam of a model, over the point pairs of its mesh *)
make_elements(model) ==
    LET mbeam == model.beam[1]
        e == add_beam_line_err(mbeam.node, mbeam.nelem)
    IN  IF e # "none" THEN [err |-> e, elements |-> <<>>]
        ELSE
        Let(add_beam_line(AbstractBeamMesh_init, mbeam.node, mbeam.nelem).beams[0],
            LAMBDA pairs :
        Let(Eager([k \in 1..Len(pairs) |-> Element_created(pairs[k])]),
            LAMBDA created :
            set_all_on_lookup(model, model.beam[1], created)))

(* make_elements, then create_system_matrices over the elements made *)
assemble(model) ==
    Let(make_elements(model), LAMBDA r :
    IF r.err # "none" THEN [err |-> r.err, elements |-> <<>>, K |-> None]
    ELSE
    Let(Eager([k \in 1..Len(r.elements) |-> from_abstract_element(r.elements[k])]),
        LAMBDA els :
        LET bad == {k \in 1..Len(els) : els[k].err # "none"}
        IN  IF bad # {}
            THEN [err |-> els[CHOOSE k \in bad : \A q \in bad : k <= q].err,
                  elements |-> <<>>, K |-> None]
            ELSE [err |-> "none", elements |-> r.elements, K |-> K_beam(els)]))

(* the assembly of a model: ret holds the elements and K *)
Assemble ==
    /\ call.op = "init"
    /\ \E model \in Models :
          \E r \in {assemble(model)} :
              /\ mdl' = model
              /\ call' = [op |-> "assemble"]
              /\ err' = r.err
              /\ ret' = [elements |-> r.elements, K |-> r.K]
              /\ UNCHANGED abm

NextAssemble == Assemble

SpecAssemble == Init /\ [][NextAssemble]_vars

SegStarts == {<<0, 2, 5>>, <<0, 0, 0>>, <<1, -1, 2>>}
SegEnds == {<<3, 2, 5>>, <<0, 0, 0>>, <<2, 4, -3>>, <<-1, 0, 7>>, <<0, 2, 5>>}
SegUids == {<<"a", "b">>, <<"c", NoUid>>}

(* ls = LineSegment(p1, p2): ret is ls.all_points *)
NewLineSegment ==
    /\ call.op = "init"
    /\ \E c1 \in SegStarts, c2 \in SegEnds, u \in SegUids :
       \E pts \in {LineSegment_init(<<Point(c1, 1, None, u[1]),
                                      Point(c2, 1, None, u[2])>>, 1)} :
          /\ call' = [op |-> "LineSegment", p1 |-> pts[1], p2 |-> pts[2]]
          /\ ret' = <<pts[1], pts[2]>>
          /\ err' = "none"
          /\ UNCHANGED <<abm, mdl>>

(* ls.split_into(n): assert isinstance(n, int) and n > 0 comes before      *)
(* all_points is written; ret is ls.all_points afterwards                  *)
SplitInto ==
    /\ call.op \in {"LineSegment", "split_into"}
    /\ \E n \in 0..MaxN :
          /\ call' = [op |-> "split_into", p1 |-> call.p1, p2 |-> call.p2, n |-> n]
          /\ IF n > 0
             THEN /\ err' = "none"
                  /\ ret' = Eager(split_into(<<call.p1, call.p2>>, 1, n))
             ELSE /\ err' = "AssertionError"
                  /\ ret' = ret
          /\ UNCHANGED <<abm, mdl>>

NextSegment == NewLineSegment \/ SplitInto

SpecSegment == Init /\ [][NextSegment]_vars

(* the point ret[k] lies at p1 + (i/n)*(p2 - p1) *)
LiesAt(k, i, n) ==
    \A c \in 1..3 :
        ret[k].coord[c] * n
          = ret[k].den * (n * call.p1.coord[c]
                          + i * (call.p2.coord[c] - call.p1.coord[c]))

(* C22: a fresh segment has exactly its two end points; split_into(n) for  *)
(* n >= 1 returns n+1 points, the first and the last being the end points  *)
(* of the segment with their UIDs, the n-1 points between them without UID *)
(* at p1 + (i/n)*(p2 - p1), i = 1..n-1.                                    *)
C22_SplitInto ==
    /\ (call.op = "LineSegment") => ret = <<call.p1, call.p2>>
    /\ (call.op = "split_into" /\ call.n >= 1) =>
          /\ err = "none"
          /\ Len(ret) = call.n + 1
          /\ ret[1] = call.p1
          /\ ret[call.n + 1] = call.p2
          /\ \A i \in 1..(call.n - 1) :
                /\ ret[i + 1].uid = NoUid
                /\ LiesAt(i + 1, i, call.n)

(* the segment of the unit test split into 3: the points at x = 1 and 2 *)
C22_Witness ==
    /\ call.op = "split_into"
    /\ call.n = 3
    /\ call.p1.coord = <<0, 2, 5>> /\ call.p1.uid = "a"
    /\ call.p2.coord = <<3, 2, 5>> /\ call.p2.uid = "b"
    /\ Len(ret) = 4
    /\ ret[2].coord = <<3, 6, 15>> /\ ret[2].den = 3
    /\ ret[3].coord = <<6, 6, 15>> /\ ret[3].den = 3

(* ======================================================================= *)
(* Relative arc length of the points of a beam                             *)
(* ======================================================================= *)

(* the length of the polyline through the first i support points *)
CumLen(sp, i) ==
    SumSeq([k \in 1..(i - 1) |->
               norm(<<sp[k+1][2][1] - sp[k][2][1], sp[k+1][2][2] - sp[k][2][2],
                      sp[k+1][2][3] - sp[k][2][3]>>)])

(* C27: the relative arc lengths eta of the points of a new beam start at  *)
(* 0, end at 1 and never decrease, and the eta of the i-th support point   *)
(* is the length of the segments before it over the length of the          *)
(* polyline.                                                               *)
C27_EtaMonotone ==
    (call.op = "add_beam_line" /\ err = "none") =>
        LET pts == BeamPoints(abm, ret[1])
            sp == call.sup_points
            eta(j) == pts[j].rel_coord
            named == {j \in 1..Len(pts) : pts[j].uid # NoUid}
        IN  /\ eta(1)[1] = 0
            /\ eta(Len(pts))[1] = eta(Len(pts))[2]
            /\ \A j \in 1..Len(pts) : eta(j)[2] > 0
            /\ \A j \in 1..(Len(pts) - 1) :
                  eta(j)[1] * eta(j + 1)[2] <= eta(j + 1)[1] * eta(j)[2]
            /\ \A i \in 1..Len(sp) : \A j \in named :
                  pts[j].uid = sp[i][1]
                  => eta(j)[1] * CumLen(sp, Len(sp)) = CumLen(sp, i) * eta(j)[2]

(* a beam of three support points, segments of length 1 and 2: the middle  *)
(* support point is at eta = 1/3 and an interior point lies after it       *)
C27_Witness ==
    /\ call.op = "add_beam_line" /\ err = "none"
    /\ Len(call.sup_points) = 3
    /\ CumLen(call.sup_points, 2) = 1
    /\ CumLen(call.sup_points, 3) = 3
    /\ \E j \in 2..(Len(BeamPoints(abm, ret[1])) - 2) :
          /\ BeamPoints(abm, ret[1])[j].uid = call.sup_points[2][1]
          /\ BeamPoints(abm, ret[1])[j].rel_coord[1] * 3
                = BeamPoints(abm, ret[1])[j].rel_coord[2]
          /\ BeamPoints(abm, ret[1])[j + 1].uid = NoUid

(* ======================================================================= *)
(* The mesh after a call of add_beam_line that raised                      *)
(* ======================================================================= *)

(* C30: a call of add_beam_line that raises leaves nbeams, nelems, nnodes, *)
(* glob_nums and named_nodes as they were, and whatever calls raised       *)
(* before, the beams are numbered 0..nbeams-1 and the next node number is  *)
(* the number of nodes.                                                    *)
C30_RaiseLeavesMesh ==
    /\ [][(call'.op = "add_beam_line" /\ err' # "none")
            => /\ nbeams(abm') = nbeams(abm)
               /\ nelems(abm') = nelems(abm)
               /\ nnodes(abm') = nnodes(abm)
               /\ abm'.glob_nums = abm.glob_nums
               /\ abm'.named_nodes = abm.named_nodes]_vars
    /\ [](/\ DOMAIN abm.beams = 0..(nbeams(abm) - 1)
          /\ abm.num_nodes + 1 = nnodes(abm))

(* ======================================================================= *)
(* The rows of a fix list with several entries                             *)
(* ======================================================================= *)

(* the number of rows of one entry: six for 'all', one for a symbol *)
EntryRows(sym) == IF sym = "all" THEN 6 ELSE 1

(* the row of B that fixes the (0-based) DOF pos of node k *)
IsUnitRow(row, k, pos) ==
    \A j \in 1..Len(row) : row[j] = IF j = 6*k + pos + 1 THEN 1 ELSE 0

(* C26 as stated: the rows of a fix list are the rows of its entries one   *)
(* after the other, six for 'all' and one for a symbol, none merged or     *)
(* dropped.                                                                *)
C26_RowsConcatenated ==
    (call.op = "fix_dof" /\ err = "none") =>
        Len(ret) = SumSeq([i \in 1..Len(call.dof_constraints) |->
                              EntryRows(call.dof_constraints[i])])

(* C26, amended: a fix list without 'all' gives one row per entry, in list *)
(* order, repeated symbols repeated; a fix list that holds 'all' gives     *)
(* exactly the six rows of the identity block of the node, whatever stands *)
(* before 'all' in the list (and did not raise) or after it.               *)
C26_FixRowsList ==
    (call.op = "fix_dof" /\ err = "none") =>
        LET fix == call.dof_constraints
            k == call.node_number
        IN  IF \E i \in 1..Len(fix) : fix[i] = "all"
            THEN /\ Len(ret) = 6
                 /\ \A i \in 1..6 : IsUnitRow(ret[i], k, i - 1)
            ELSE /\ Len(ret) = Len(fix)
                 /\ \A i \in 1..Len(fix) : IsUnitRow(ret[i], k, pos_dict[fix[i]])

(* the fix lists ['uz', 'all'] and ['uy', 'uy'] at node 1 *)
C26_Witness ==
    /\ call.op = "fix_dof" /\ err = "none"
    /\ call.node_number = 1
    /\ \/ /\ call.dof_constraints = <<"uz", "all">>
          /\ Len(ret) = 6
          /\ ret[1][7] = 1
       \/ /\ call.dof_constraints = <<"uy", "uy">>
          /\ Len(ret) = 2
          /\ ret[1] = ret[2]

(* ======================================================================= *)
(* The matrices of the elements of one straight beam                       *)
(* ======================================================================= *)

(* a cross section with different second moments of area *)
SkewSection == [A |-> FInt(3), Iy |-> F1, Iz |-> FInt(2), J |-> FInt(5)]
BeamLengths == {1, 2}

(* the model of one beam from the origin along dir, of the given length,   *)
(* with one orientation, material and cross section from end to end        *)
BeamAlong(dir, len, nelem, up, sec) ==
    LET whole == [from |-> "root", to |-> "tip"]
    IN  [beam |-> <<[node |-> << <<"root", Origin>>,
                                 <<"tip", <<len*dir[1], len*dir[2], len*dir[3]>>>> >>,
                     nelem |-> nelem,
                     orientation |-> <<whole @@ [up |-> up]>>,
                     material |-> <<whole @@ [uid |-> "dummy"]>>,
                     cross_section |-> <<whole @@ [uid |-> "dummy"]>>,
                     point_load |-> <<>>]>>,
         material |-> [dummy |-> UnitMaterial],
         cross_section |-> [dummy |-> sec],
         bc |-> [fix |-> <<>>]]

(* Element.from_abstract_element on every element of beam 0 of the mesh,   *)
(* then stiffness_matrix_local and stiffness_matrix_glob of each element   *)
(* and the matrix of the beam                                              *)
element_matrices(m) ==
    Let(Eager([k \in 1..Len(m.beams[0]) |-> from_abstract_element(m.beams[0][k])]),
        LAMBDA els :
    LET bad == {k \in 1..Len(els) : els[k].err # "none"}
    IN  IF bad # {}
        THEN [err |-> els[CHOOSE k \in bad : \A q \in bad : k <= q].err, ret |-> None]
        ELSE
        Let(Eager([k \in 1..Len(els) |->
                      stiffness_matrix_local(els[k].properties, els[k].length)]),
            LAMBDA k_loc :
        Let(Eager([k \in 1..Len(els) |-> stiffness_matrix_glob(els[k].T3, k_loc[k])]),
            LAMBDA k_glob :
        Let(K_beam(els), LAMBDA K :
            [err |-> "none",
             ret |-> [mesh |-> m.beams[0], T3 |-> els[1].T3,
                      k_loc |-> k_loc, k_glob |-> k_glob, K |-> K]]))))

(* the beam is meshed and the matrices of its elements are computed *)
ElementMatrices ==
    /\ call.op = "init"
    /\ \E dir \in AxisSet, up \in AxisSet, len \in BeamLengths, nelem \in 1..MaxN,
          sec \in {UnitSection, SkewSection} :
       \E r1 \in {create_mesh(BeamAlong(dir, len, nelem, up, sec))} :
       \E r \in {IF r1.err # "none" THEN [err |-> r1.err, ret |-> None]
                 ELSE element_matrices(r1.abm)} :
          /\ call' = [op |-> "element_matrices", dir |-> dir, up |-> up,
                      nelem |-> nelem]
          /\ err' = r.err
          /\ ret' = r.ret
          /\ UNCHANGED <<abm, mdl>>

NextElement == ElementMatrices

SpecElement == Init /\ [][NextElement]_vars

(* the 12 x 12 matrix with T3 four times on the diagonal *)
BlockDiag4(T3) ==
    Eager([i \in 1..12 |-> Eager([j \in 1..12 |->
        IF (i - 1) \div 3 = (j - 1) \div 3
        THEN T3[((i - 1) % 3) + 1][((j - 1) % 3) + 1] ELSE 0])])

Transpose(A) == Eager([i \in 1..Len(A[1]) |-> Eager([j \in 1..Len(A) |-> A[j][i]])])

(* the indices of the non-zero entries of an integer vector *)
NonZero(v) == SelectSeq([k \in 1..Len(v) |-> k], LAMBDA k : v[k] # 0)

(* A B for a matrix A of integers and a matrix B of fractions *)
IntTimes(A, B) ==
    Eager([i \in 1..Len(A) |->
        Let(NonZero(A[i]), LAMBDA nz :
            Eager([j \in 1..Len(B[1]) |->
                FSum([x \in 1..Len(nz) |-> FMul(FInt(A[i][nz[x]]), B[nz[x]][j])])]))])

(* A B for a matrix A of fractions and a matrix B of integers *)
TimesInt(A, B) ==
    Let(Transpose(B), LAMBDA Bt :
    Let(Transpose(A), LAMBDA At : Transpose(IntTimes(Bt, At))))

(* T^T k T and T k T^T *)
TtKT(T, k) == Let(TimesInt(k, T), LAMBDA kT : IntTimes(Transpose(T), kT))
TKTt(T, k) == Let(TimesInt(k, Transpose(T)), LAMBDA kTt : IntTimes(T, kTt))

(* C24 as stated: for every orientation of the element its global          *)
(* stiffness matrix is T K_loc T^T, T being the 12 x 12 matrix built from  *)
(* the 3 x 3 matrix of direction cosines of the element.                   *)
C24_GlobalIsTKTt ==
    (call.op = "element_matrices" /\ err = "none") =>
        Let(BlockDiag4(ret.T3), LAMBDA T :
            \A k \in 1..Len(ret.k_glob) : ret.k_glob[k] = TKTt(T, ret.k_loc[k]))

(* C24, amended: for every orientation of the element, symmetric T or not, *)
(* its global stiffness matrix is T^T K_loc T, the rows of the 3 x 3       *)
(* matrix being the direction cosines of the local x, y and z axes.        *)
C24_GlobalIsTtKT ==
    (call.op = "element_matrices" /\ err = "none") =>
        /\ ret.T3 = Element_T3(call.dir,
                               cross(vector_rejection(call.up, call.dir), call.dir),
                               vector_rejection(call.up, call.dir))
        /\ Let(BlockDiag4(ret.T3), LAMBDA T :
               \A k \in 1..Len(ret.k_glob) : ret.k_glob[k] = TtKT(T, ret.k_loc[k]))

(* an element along Y with up = Z: T3 is not symmetric, the axial          *)
(* stiffness EA/L = 3/2 couples the uy of the two nodes and the bending    *)
(* stiffness 6 E Iz/L^2 = 3 couples ux of node 1 with thz of node 1 with   *)
(* the sign the rotation gives it                                          *)
C24_Witness ==
    /\ call.op = "element_matrices" /\ err = "none"
    /\ call.dir = G_Y /\ call.up = G_Z /\ call.nelem = 1
    /\ ret.T3 = << <<0, 1, 0>>, <<-1, 0, 0>>, <<0, 0, 1>> >>
    /\ ret.T3 # Transpose(ret.T3)
    /\ ret.k_loc[1][1][1] = Frac(3, 2)
    /\ ret.k_glob[1][2][2] = Frac(3, 2)
    /\ ret.k_loc[1][2][6] = FInt(3)
    /\ ret.k_glob[1][1][6] = FInt(-3)

(* ----- rigid-body motions of a beam ----- *)

(* the positions of the nodes of a beam, as fractions *)
NodePositions(elems) ==
    Eager([j \in 1..(Len(elems) + 1) |->
        Let(IF j = 1 THEN elems[1].p1 ELSE elems[j - 1].p2, LAMBDA p :
            <<Frac(p.coord[1], p.den), Frac(p.coord[2], p.den),
              Frac(p.coord[3], p.den)>>)])

(* the displacement vector of the nodes at the positions r under the       *)
(* translation t and the small rotation theta: t + theta x r and theta at  *)
(* every node                                                              *)
RigidU(r, t, theta) ==
    Flatten(Eager([j \in 1..Len(r) |->
        <<FAdd(FInt(t[1]), FSub(FMul(FInt(theta[2]), r[j][3]),
                                FMul(FInt(theta[3]), r[j][2]))),
          FAdd(FInt(t[2]), FSub(FMul(FInt(theta[3]), r[j][1]),
                                FMul(FInt(theta[1]), r[j][3]))),
          FAdd(FInt(t[3]), FSub(FMul(FInt(theta[1]), r[j][2]),
                                FMul(FInt(theta[2]), r[j][1]))),
          FInt(theta[1]), FInt(theta[2]), FInt(theta[3])>>]))

(* K U = 0 for a matrix and a vector of fractions *)
TimesIsZero(K, U) ==
    \A i \in 1..Len(K) :
        Let(SelectSeq([j \in 1..Len(U) |-> j],
                      LAMBDA j : K[i][j] # F0 /\ U[j] # F0), LAMBDA nz :
            FSum([x \in 1..Len(nz) |-> FMul(K[i][nz[x]], U[nz[x]])]) = F0)

(* translations and rotations: the unit ones and a general one *)
Motions ==
    {<<t, Origin>> : t \in {G_X, G_Y, G_Z}}
    \cup {<<Origin, th>> : th \in {G_X, G_Y, G_Z}}
    \cup {<<<<1, -2, 3>>, <<2, 1, -1>>>>}

(* C25: without constraints, K u = 0 for every rigid-body motion u of the  *)
(* nodes, both for the matrix of one element and for the matrix of the     *)
(* assembled beam: a translation of all nodes, and a small rotation theta  *)
(* with every nodal rotation equal to theta and the nodal translations     *)
(* equal to theta x r.                                                     *)
C25_RigidBodyNullSpace ==
    (call.op = "element_matrices" /\ err = "none") =>
        Let(NodePositions(ret.mesh), LAMBDA r :
            \A mo \in Motions :
                /\ Let(RigidU(r, mo[1], mo[2]), LAMBDA U : TimesIsZero(ret.K, U))
                /\ \A k \in 1..Len(ret.k_glob) :
                      Let(RigidU(SubSeq(r, k, k + 1), mo[1], mo[2]), LAMBDA U :
                          TimesIsZero(ret.k_glob[k], U)))

(* a beam of two elements along Y with a skew cross section: under the     *)
(* rotation about Z the tip moves along -X                                 *)
C25_Witness ==
    /\ call.op = "element_matrices" /\ err = "none"
    /\ call.dir = G_Y /\ call.up = G_Z /\ call.nelem = 2
    /\ Len(ret.K) = 18
    /\ ret.K[1][1] # ret.K[3][3]
    /\ ret.K[7][7] = FAdd(ret.k_glob[1][7][7], ret.k_glob[2][1][1])
    /\ FLeq(RigidU(NodePositions(ret.mesh), Origin, G_Z)[13], FInt(-1))

(* ======================================================================= *)
(* The system matrices of a mesh of two beams                              *)
(* ======================================================================= *)

(* the number of elements of the second beam *)
SecondBeamCounts == {1, 2}

(* a beam a-b of length 2 along X and a beam c-d of length 3 along Y with  *)
(* a skew cross section, and one point load                                *)
TwoBeams(nA, nB, upB, at, load) ==
    LET ab == [from |-> "a", to |-> "b"]
        cd == [from |-> "c", to |-> "d"]
    IN  [beam |-> <<[node |-> << <<"a", Origin>>, <<"b", <<2, 0, 0>>>> >>,
                     nelem |-> nA,
                     orientation |-> <<ab @@ [up |-> G_Z]>>,
                     material |-> <<ab @@ [uid |-> "unit"]>>,
                     cross_section |-> <<ab @@ [uid |-> "unit"]>>,
                     point_load |-> IF at \in {"a", "b"}
                                    THEN <<[at |-> at, load |-> load]>> ELSE <<>>],
                    [node |-> << <<"c", <<1, 0, 0>>>>, <<"d", <<1, 3, 0>>>> >>,
                     nelem |-> nB,
                     orientation |-> <<cd @@ [up |-> upB]>>,
                     material |-> <<cd @@ [uid |-> "unit"]>>,
                     cross_section |-> <<cd @@ [uid |-> "skew"]>>,
                     point_load |-> IF at \in {"c", "d"}
                                    THEN <<[at |-> at, load |-> load]>> ELSE <<>>]>>,
         material |-> [unit |-> UnitMaterial],
         cross_section |-> [unit |-> UnitSection, skew |-> SkewSection],
         bc |-> [fix |-> <<>>]]

(* the global matrices of the mesh m and, beam by beam, the matrices and   *)
(* load vectors of the elements they are assembled from                    *)
system_matrices(m) ==
    Let(create_system_matrices(m), LAMBDA r :
        IF r.err # "none" THEN [err |-> r.err, ret |-> None]
        ELSE
        Let(Eager([i \in 1..(m.num_beams + 1) |-> beam_elements(m, i - 1).elements]),
            LAMBDA els :
            [err |-> "none",
             ret |-> [abm |-> m, K |-> r.K, M |-> r.M, F |-> r.F,
                      k_glob |-> Eager([i \in 1..Len(els) |->
                                    Eager([e \in 1..Len(els[i]) |->
                                        element_stiffness_matrix_glob(els[i][e])])]),
                      f_glob |-> Eager([i \in 1..Len(els) |->
                                    Eager([e \in 1..Len(els[i]) |->
                                        els[i][e].load_vector_glob])])]]))

(* the mesh of a model of two beams is created and its system matrices     *)
(* are assembled                                                           *)
SystemMatrices ==
    /\ call.op = "init"
    /\ \E nA \in 1..MaxN, nB \in SecondBeamCounts, upB \in {G_Z, G_X},
          at \in {"a", "b", "c", "d"}, load \in RunLoads :
       \E r1 \in {create_mesh(TwoBeams(nA, nB, upB, at, load))} :
       \E r \in {IF r1.err # "none" THEN [err |-> r1.err, ret |-> None]
                 ELSE system_matrices(r1.abm)} :
          /\ call' = [op |-> "system_matrices", at |-> at, load |-> load]
          /\ err' = r.err
          /\ ret' = r.ret
          /\ UNCHANGED <<abm, mdl>>

NextSystem == SystemMatrices

SpecSystem == Init /\ [][NextSystem]_vars

(* the (0-based) first DOF of beam b: the sum of ndofs_beam(k) for k < b *)
BeamDofOffset(m, b) ==
    SumSeq([k \in 1..b |-> ndofs_beam(m, k - 1)])

(* the windows of the elements: <<beam, element, first DOF>>, beam and     *)
(* element counted from 1, the DOF from 0                                  *)
Windows(m) ==
    Flatten([b \in 1..nbeams(m) |->
        [e \in 1..nelem_beam(m, b - 1) |->
            <<b, e, BeamDofOffset(m, b - 1) + 6*(e - 1)>>]])

InWindow(w, i) == w[3] < i /\ i <= w[3] + 12

FLt(a, b) == ~FLeq(b, a)
FAbs(a) == Let(a, LAMBDA x : <<Abs(x[1]), x[2]>>)

(* PointInterpolator._make_table: each support point with its relative     *)
(* position (the length of the chain up to it over the whole length) and   *)
(* its uid; the segments have integer lengths                              *)
RECURSIVE table_lengths(_, _)
table_lengths(sup_points, k) ==
    IF k = 1 THEN 0
    ELSE table_lengths(sup_points, k - 1)
         + norm(<<sup_points[k][1] - sup_points[k-1][1],
                  sup_points[k][2] - sup_points[k-1][2],
                  sup_points[k][3] - sup_points[k-1][3]>>)

make_table(sup_points, point_uids) ==
    Let(table_lengths(sup_points, Len(sup_points)), LAMBDA length :
        Eager([k \in 1..Len(sup_points) |->
                  [coord |-> <<FInt(sup_points[k][1]), FInt(sup_points[k][2]),
                               FInt(sup_points[k][3])>>,
                   xsi |-> Frac(table_lengths(sup_points, k), length),
                   uid |-> point_uids[k]]]))

(* PointInterpolator.interpolate: the point at xsi on the first segment    *)
(* of the table that holds xsi                                             *)
interpolate(table, xsi) ==
    LET k == CHOOSE j \in 1..(Len(table) - 1) :
                 /\ FLeq(table[j].xsi, xsi) /\ FLeq(xsi, table[j+1].xsi)
                 /\ \A i \in 1..(j - 1) :
                        ~(FLeq(table[i].xsi, xsi) /\ FLeq(xsi, table[i+1].xsi))
        t == FDiv(FSub(xsi, table[k].xsi), FSub(table[k+1].xsi, table[k].xsi))
        c(i) == FAdd(table[k].coord[i],
                     FMul(t, FSub(table[k+1].coord[i], table[k].coord[i])))
    IN  <<c(1), c(2), c(3)>>

(* sorted(point_list, key=attrgetter('xsi')) for points of distinct xsi *)
RECURSIVE sorted_by_xsi(_)
sorted_by_xsi(S) ==
    IF S = {} THEN <<>>
    ELSE Let(CHOOSE p \in S : \A q \in S : FLeq(p.xsi, q.xsi), LAMBDA m :
             <<m>> \o sorted_by_xsi(S \ {m}))

(* PointInterpolator.get_n_points(n): the support points and those of      *)
(* np.linspace(0, 1, n) strictly inside that are min_factor/n or more      *)
(* away from every support point, in the order of xsi                      *)
get_n_points(table, n) ==
    LET min_xsi_apart == Frac(1, 10 * n)
        linspace == {Frac(k, n - 1) : k \in 1..(n - 2)}
        apart(xsi) == \A j \in 1..Len(table) :
                          FLeq(min_xsi_apart, FAbs(FSub(table[j].xsi, xsi)))
    IN  sorted_by_xsi({table[j] : j \in 1..Len(table)}
                      \cup {[coord |-> interpolate(table, xsi), xsi |-> xsi,
                             uid |-> NoUid] : xsi \in {x \in linspace : apart(x)}})

(* Element(parent_beamline, xsi1, xsi2, uid1, uid2, up): the two nodes     *)
(* with their place on the beam line, the axes, properties that read None  *)
(* until set, no loads and both local-system flags False; counted is the   *)
(* number of elements before this one on the beam line                     *)
BeamElement(point1, point2, up, counted) ==
    Let(unit_vector(<<point2.coord[1][1] * point1.coord[1][2]
                        - point1.coord[1][1] * point2.coord[1][2],
                      point2.coord[2][1] * point1.coord[2][2]
                        - point1.coord[2][1] * point2.coord[2][2],
                      point2.coord[3][1] * point1.coord[3][2]
                        - point1.coord[3][1] * point2.coord[3][2]>>),
        LAMBDA x_elem :
        [node1 |-> [uid |-> point1.uid, xsi |-> point1.xsi, coord |-> point1.coord,
                    num |-> counted, elem_loc |-> 1],
         node2 |-> [uid |-> point2.uid, xsi |-> point2.xsi, coord |-> point2.coord,
                    num |-> counted + 1, elem_loc |-> 2],
         x_elem |-> x_elem,
         axes |-> get_local_system_from_up(x_elem, up),
         properties |-> [p \in PropSet |-> None],
         concentrated_loads |-> Zeros(12),
         distributed_loads |-> Zeros(6),
         concentrated_loads_in_loc_system |-> FALSE,
         distributed_loads_in_loc_system |-> FALSE])

(* BeamLine._make_elements: one element per pair of neighbouring points *)
BeamLine_make_elements(table, input_nelem, up) ==
    Let(get_n_points(table, input_nelem + 1), LAMBDA point_list :
        Eager([k \in 1..(Len(point_list) - 1) |->
                  BeamElement(point_list[k], point_list[k+1], up, k - 1)]))

(* Element.update_properties: every property type is set, to None where    *)
(* prop does not hold it                                                   *)
update_properties(element, prop) ==
    [element EXCEPT !.properties = [p \in PropSet |-> dict_get(prop, p, None)]]

(* the material and the profile data base of a frame *)
material_db == [unit |-> UnitMaterial, stiff |-> StiffMaterial]
profile_db == [unit |-> UnitSection, skew |-> SkewSection]

(* BeamLine._add_beam_properties for entries with constant properties:     *)
(* by_uid gives the xsi of the named nodes of the frame                    *)
RECURSIVE BeamLine_add_beam_properties(_, _, _)
BeamLine_add_beam_properties(elements, by_uid, beamprops) ==
    IF beamprops = <<>> THEN [err |-> "none", elements |-> elements]
    ELSE LET entry == Head(beamprops)
         IN  IF \/ entry.from \notin DOMAIN by_uid
                \/ entry.to \notin DOMAIN by_uid
                \/ entry.constant.material \notin DOMAIN material_db
                \/ entry.constant.profil \notin DOMAIN profile_db
             THEN [err |-> "KeyError", elements |-> elements]
             ELSE LET from_xsi == by_uid[entry.from]
                      to_xsi == by_uid[entry.to]
                      properties == profile_db[entry.constant.profil]
                                    @@ material_db[entry.constant.material]
                  IN  BeamLine_add_beam_properties(
                          Eager([k \in 1..Len(elements) |->
                              IF /\ FLeq(from_xsi, elements[k].node2.xsi)
                                 /\ FLeq(elements[k].node2.xsi, to_xsi)
                              THEN update_properties(elements[k], properties)
                              ELSE elements[k]]),
                          by_uid, Tail(beamprops))

(* ----- the beam lines that get properties ----- *)
PropChains ==
    {<< <<0, 0, 0>>, <<2, 0, 0>> >>,
     << <<0, 0, 0>>, <<1, 0, 0>>, <<2, 0, 0>> >>,
     << <<0, 0, 0>>, <<1, 0, 0>>, <<1, 2, 0>> >>}
PropUids == <<"a", "b", "c">>
PropNames == {"a", "b", "c", "z"}

(* the xsi of the named nodes in finder.nodes.by_uid *)
nodes_by_uid(table) ==
    [u \in {table[j].uid : j \in 1..Len(table)} |->
        table[CHOOSE j \in 1..Len(table) : table[j].uid = u].xsi]

(* BeamLine._add_beam_properties on a beam line of input_nelem elements    *)
(* whose beamprops end with a constant assignment from one named node to   *)
(* another: ret holds the elements before the last entry (prior) and after *)
(* the call                                                                *)
AddBeamProperties ==
    /\ call.op = "init"
    /\ \E chain \in PropChains, input_nelem \in 1..MaxN,
          first \in {<<>>, <<"whole">>}, from \in PropNames, to \in PropNames :
          \E table \in {make_table(chain, SubSeq(PropUids, 1, Len(chain)))} :
          \E elements \in {BeamLine_make_elements(table, input_nelem, G_Z)} :
          \E entry \in {[from |-> from, to |-> to,
                         constant |-> [material |-> "stiff", profil |-> "skew"]]} :
          \E before \in {BeamLine_add_beam_properties(elements, nodes_by_uid(table),
                            IF first = <<>> THEN <<>>
                            ELSE <<[from |-> "a", to |-> table[Len(table)].uid,
                                    constant |-> [material |-> "unit",
                                                  profil |-> "unit"]]>>)} :
          \E r \in {BeamLine_add_beam_properties(before.elements,
                                                 nodes_by_uid(table), <<entry>>)} :
             /\ call' = [op |-> "add_beam_properties", by_uid |-> nodes_by_uid(table),
                         entry |-> entry]
             /\ err' = r.err
             /\ ret' = [prior |-> before.elements, elements |-> r.elements]
             /\ UNCHANGED <<abm, mdl>>

NextProps == AddBeamProperties

SpecProps == Init /\ [][NextProps]_vars

(* C29: a constant material/profile assignment from node X to node Y sets  *)
(* the new properties on exactly the elements that lie between X and Y     *)
(* (from the xsi of X to the xsi of Y); every other element, the one that  *)
(* ends at X included, keeps the properties it had before the assignment.  *)
C29_ConstantRangeOnly ==
    (call.op = "add_beam_properties" /\ err = "none")
    => \A k \in 1..Len(ret.elements) :
          IF /\ FLeq(call.by_uid[call.entry.from], ret.elements[k].node1.xsi)
             /\ FLeq(ret.elements[k].node2.xsi, call.by_uid[call.entry.to])
          THEN ret.elements[k].properties
                   = profile_db[call.entry.constant.profil]
                     @@ material_db[call.entry.constant.material]
          ELSE ret.elements[k].properties = ret.prior[k].properties

(* ======================================================================= *)
(* The loads of an element of the file-based pipeline: what is added to    *)
(* it and the load vector read from it                                     *)
(* ======================================================================= *)

(* a vector of integers as a vector of fractions *)
FVec(v) == Eager([i \in 1..Len(v) |-> FInt(v[i])])

(* u + v for vectors of fractions *)
FVecAdd(u, v) == Eager([i \in 1..Len(u) |-> FAdd(u[i], v[i])])

(* T.T @ v for a 12-vector v of fractions *)
Tt_matmul(T3, v) ==
    Eager([i \in 1..12 |->
        Let(3 * ((i - 1) \div 3), LAMBDA blk :
        Let(((i - 1) % 3) + 1, LAMBDA c :
            FSum(<<FMul(FInt(T3[1][c]), v[blk+1]), FMul(FInt(T3[2][c]), v[blk+2]),
                   FMul(FInt(T3[3][c]), v[blk+3])>>)))])

(* Element.transformation_matrix: T3 of the axes of the element *)
transformation_matrix(element) ==
    Element_T3(element.x_elem, element.axes.y_elem, element.axes.z_elem)

(* Element.length: the distance of the two nodes *)
BeamElement_length(element) ==
    LET d(i) == FSub(element.node2.coord[i], element.node1.coord[i])
        D == d(1)[2] * d(2)[2] * d(3)[2]
        n(i) == d(i)[1] * (D \div d(i)[2])
    IN  Frac(norm(<<n(1), n(2), n(3)>>), D)

(* Element.update_distributed_loads: the flag of the element is set to     *)
(* that of the call and the loads are added to those of the element        *)
update_distributed_loads(element, loads, is_loc_system) ==
    IF is_loc_system \notin BOOLEAN THEN [err |-> "ValueError", element |-> element]
    ELSE [err |-> "none",
          element |-> [element EXCEPT
              !.distributed_loads_in_loc_system = is_loc_system,
              !.distributed_loads = FVecAdd(@, loads)]]

(* Element.update_concentrated_loads: the flag of the element is set to    *)
(* that of the call and the loads are added at the node's six entries      *)
update_concentrated_loads(element, loads, loc_node_number, is_loc_system) ==
    IF loc_node_number \notin {1, 2} \/ is_loc_system \notin BOOLEAN
    THEN [err |-> "ValueError", element |-> element]
    ELSE [err |-> "none",
          element |-> [element EXCEPT
              !.concentrated_loads_in_loc_system = is_loc_system,
              !.concentrated_loads =
                  FVecAdd(@, IF loc_node_number = 1 THEN loads \o Zeros(6)
                             ELSE Zeros(6) \o loads)]]

(* Element.distributed_load_vector for the loads qx, qy, qz, mx, my, mz    *)
(* of an element of length L                                               *)
distributed_load_vector_of(q, L) ==
    LET half(x) == FDiv(FMul(x, L), FInt(2))
        twelfth(x) == FDiv(FMul(x, FMul(L, L)), FInt(12))
    IN  <<half(q[1]), FSub(half(q[2]), q[6]), FAdd(half(q[3]), q[5]), half(q[4]),
          FNeg(twelfth(q[3])), twelfth(q[2]),
          half(q[1]), FAdd(half(q[2]), q[6]), FSub(half(q[3]), q[5]), half(q[4]),
          twelfth(q[3]), FNeg(twelfth(q[2]))>>

distributed_load_vector(element) ==
    distributed_load_vector_of(element.distributed_loads, BeamElement_length(element))

(* Element.distributed_load_vector_glob *)
distributed_load_vector_glob(element) ==
    IF element.distributed_loads_in_loc_system
    THEN Tt_matmul(transformation_matrix(element), distributed_load_vector(element))
    ELSE distributed_load_vector(element)

(* Element.concentrated_load_vector_glob *)
concentrated_load_vector_glob(element) ==
    IF element.concentrated_loads_in_loc_system
    THEN Tt_matmul(transformation_matrix(element), element.concentrated_loads)
    ELSE element.concentrated_loads

(* Element.load_vector_glob *)
load_vector_glob(element) ==
    Let(element, LAMBDA e :
        FVecAdd(distributed_load_vector_glob(e), concentrated_load_vector_glob(e)))

(* ----- the elements that get loads ----- *)
ElemEnds == {<<1, 0, 0>>, <<0, 2, 0>>, <<0, 0, 1>>}
ElemUps == {G_Z, G_Y, G_X}
ConcLoads == {<<1, 2, 3, 4, 5, 6>>, <<0, 0, 0, 0, 0, 0>>}
DistLoads == {<<1, 2, 3, 0, 0, 0>>, <<0, 0, -1, 1, 2, 0>>}
LocNodeNumbers == {1, 2, 3}

(* an element is made, from the one segment of a beam line *)
NewBeamElement ==
    /\ call.op = "init"
    /\ \E end \in ElemEnds, up \in ElemUps :
          \E table \in {make_table(<<Origin, end>>, <<"root", "tip">>)} :
          \E elements \in {BeamLine_make_elements(table, 1, up)} :
             /\ elements[1].axes.err = "none"
             /\ ret' = elements[1]
             /\ call' = [op |-> "Element", loads |-> <<>>]
             /\ UNCHANGED <<abm, err, mdl>>

(* element.update_concentrated_loads(loads, loc_node_number,               *)
(* is_loc_system); call.loads lists the loads the element has taken        *)
UpdateConcentratedLoads ==
    /\ call.op \in {"Element", "update"}
    /\ err = "none"
    /\ Len(call.loads) < MaxLoads
    /\ \E load \in ConcLoads, loc \in LocNodeNumbers, flag \in BOOLEAN :
          \E r \in {update_concentrated_loads(ret, FVec(load), loc, flag)} :
             /\ ret' = r.element
             /\ err' = r.err
             /\ call' = [op |-> "update",
                         loads |-> IF r.err = "none"
                                   THEN Append(call.loads,
                                            [kind |-> "concentrated", load |-> load,
                                             loc |-> loc, is_loc_system |-> flag])
                                   ELSE call.loads]
             /\ UNCHANGED <<abm, mdl>>

(* element.update_distributed_loads(loads, is_loc_system) *)
UpdateDistributedLoads ==
    /\ call.op \in {"Element", "update"}
    /\ err = "none"
    /\ Len(call.loads) < MaxLoads
    /\ \E load \in DistLoads, flag \in BOOLEAN :
          \E r \in {update_distributed_loads(ret, FVec(load), flag)} :
             /\ ret' = r.element
             /\ err' = r.err
             /\ call' = [op |-> "update",
                         loads |-> Append(call.loads,
                                       [kind |-> "distributed", load |-> load,
                                        is_loc_system |-> flag])]
             /\ UNCHANGED <<abm, mdl>>

(* element.load_vector_glob is read *)
LoadVectorGlob ==
    /\ call.op = "update"
    /\ err = "none"
    /\ call' = [op |-> "load_vector_glob", loads |-> call.loads]
    /\ ret' = [element |-> ret, f_elem_glob |-> load_vector_glob(ret)]
    /\ UNCHANGED <<abm, err, mdl>>

NextElemLoads ==
    NewBeamElement \/ UpdateConcentratedLoads \/ UpdateDistributedLoads
    \/ LoadVectorGlob

SpecElemLoads == Init /\ [][NextElemLoads]_vars

(* what one load gives in the global system when it is treated according   *)
(* to its own flag                                                         *)
OwnContribution(element, l) ==
    LET f == IF l.kind = "concentrated"
             THEN (IF l.loc = 1 THEN FVec(l.load) \o Zeros(6)
                   ELSE Zeros(6) \o FVec(l.load))
             ELSE distributed_load_vector_of(FVec(l.load), BeamElement_length(element))
    IN  IF l.is_loc_system THEN Tt_matmul(transformation_matrix(element), f) ELSE f

RECURSIVE SumOwnContributions(_, _)
SumOwnContributions(element, loads) ==
    IF loads = <<>> THEN Zeros(12)
    ELSE FVecAdd(OwnContribution(element, Head(loads)),
                 SumOwnContributions(element, Tail(loads)))

(* C28: the global load vector of an element is the sum of what its loads  *)
(* give, each concentrated or distributed load rotated or not according    *)
(* to its own local-system flag; so it depends on the loads added but not  *)
(* on their order, and a global-system load added after a local-system     *)
(* load does not change how the earlier one is treated.                    *)
C28_EachLoadOwnFlag ==
    call.op = "load_vector_glob"
    => ret.f_elem_glob = SumOwnContributions(ret.element, call.loads)

(* ======================================================================= *)
(* The loads of the beam lines of a frame (file-based pipeline): the       *)
(* concentrated, distributed and free-node loads of BeamLine._add_loads    *)
(* and the global load vector assembled from the elements                  *)
(* ======================================================================= *)

GET_CLOSEST_NODE == "__GET_CLOSEST_NODE"
GET_CLOSEST_X == "__GET_CLOSEST_X"
GET_CLOSEST_Y == "__GET_CLOSEST_Y"
GET_CLOSEST_Z == "__GET_CLOSEST_Z"
FINDER_KEYWORDS == {GET_CLOSEST_NODE, GET_CLOSEST_X, GET_CLOSEST_Y, GET_CLOSEST_Z}

(* a node of the frame is named by its beam line, its element and its      *)
(* place in the element                                                    *)
node_of(frame, ref) ==
    IF ref.elem_loc = 1 THEN frame.beamlines[ref.beam].elements[ref.elem].node1
    ELSE frame.beamlines[ref.beam].elements[ref.elem].node2

(* finder.nodes.by_beamline_uid[uid]: the first node object of every node  *)
(* number of the beam line, in the order of creation                       *)
beamline_nodes(frame, beam) ==
    <<[beam |-> beam, elem |-> 1, elem_loc |-> 1]>>
    \o [k \in 1..Len(frame.beamlines[beam].elements) |->
           [beam |-> beam, elem |-> k, elem_loc |-> 2]]

(* the distance functions of get_closest_beam_node; the distance of two    *)
(* points is compared by its square                                        *)
get_dist(search, x, y) ==
    LET d(i) == FSub(x[i], y[i])
    IN  IF search = GET_CLOSEST_NODE
        THEN FSum(<<FMul(d(1), d(1)), FMul(d(2), d(2)), FMul(d(3), d(3))>>)
        ELSE IF search = GET_CLOSEST_X THEN FAbs(d(1))
        ELSE IF search = GET_CLOSEST_Y THEN FAbs(d(2))
        ELSE FAbs(d(3))

(* BeamLine.get_closest_beam_node over the whole beam line: the first node *)
(* none of the others is closer than                                       *)
get_closest_beam_node(frame, beam, point_coord, search) ==
    Let(beamline_nodes(frame, beam), LAMBDA nodes :
    Let(Eager([k \in 1..Len(nodes) |->
                  get_dist(search, point_coord, node_of(frame, nodes[k]).coord)]),
        LAMBDA dist :
        nodes[CHOOSE k \in 1..Len(nodes) :
                  /\ \A j \in 1..Len(nodes) : FLeq(dist[k], dist[j])
                  /\ \A j \in 1..(k - 1) : FLt(dist[k], dist[j])]))

(* BeamLine.project_load: the load with the moment of its force about the  *)
(* point it is projected onto added                                        *)
project_load(load, from_point, to_point) ==
    LET r(i) == FSub(from_point[i], to_point[i])
        rxF(i, j) == FSub(FMul(r(i), load[j]), FMul(r(j), load[i]))
    IN  <<load[1], load[2], load[3],
          FAdd(load[4], rxF(2, 3)), FAdd(load[5], rxF(3, 1)), FAdd(load[6], rxF(1, 2))>>

(* the frame with the element of a node replaced *)
on_element(frame, ref, new_element) ==
    [frame EXCEPT !.beamlines[ref.beam].elements[ref.elem] = new_element]

(* the loop over loads['concentrated'] of BeamLine._add_loads: an entry    *)
(* whose node the finder does not know is skipped                          *)
RECURSIVE add_concentrated(_, _)
add_concentrated(frame, entries) ==
    IF entries = <<>> THEN frame
    ELSE Let(Head(entries), LAMBDA entry :
         IF entry.node \notin DOMAIN frame.by_uid
         THEN add_concentrated(frame, Tail(entries))
         ELSE Let(frame.by_uid[entry.node], LAMBDA node :
              add_concentrated(
                  on_element(frame, node,
                      update_concentrated_loads(
                          frame.beamlines[node.beam].elements[node.elem],
                          FVec(entry.load), node.elem_loc,
                          entry.in_local_system).element),
                  Tail(entries))))

(* the loop over loads['distributed'] for constant loads: the elements of  *)
(* this beam line whose middle lies strictly between the two nodes         *)
RECURSIVE add_distributed(_, _, _)
add_distributed(frame, beam, entries) ==
    IF entries = <<>> THEN [err |-> "none", frame |-> frame]
    ELSE Let(Head(entries), LAMBDA entry :
         IF \/ entry.from \notin DOMAIN frame.by_uid
            \/ frame.by_uid[entry.from].beam # beam
         THEN add_distributed(frame, beam, Tail(entries))
         ELSE IF entry.to \notin DOMAIN frame.by_uid
         THEN [err |-> "KeyError", frame |-> frame]
         ELSE LET from_xsi == node_of(frame, frame.by_uid[entry.from]).xsi
                  to_xsi == node_of(frame, frame.by_uid[entry.to]).xsi
                  mid_xsi(e) == FDiv(FAdd(e.node1.xsi, e.node2.xsi), FInt(2))
              IN  add_distributed(
                      [frame EXCEPT !.beamlines[beam].elements =
                          Eager([k \in 1..Len(@) |->
                              IF FLt(from_xsi, mid_xsi(@[k])) /\ FLt(mid_xsi(@[k]), to_xsi)
                              THEN update_distributed_loads(
                                       @[k], FVec(entry.constant),
                                       entry.in_local_system).element
                              ELSE @[k]])],
                      beam, Tail(entries)))

(* the loop over loads['free_nodes']: the destination node is the one      *)
(* named, or the closest by the scheme named or by the scheme of the beam  *)
(* line; the projected load goes to the element of that node as a load in  *)
(* the global system and the entry is kept with its closest_beam_node      *)
RECURSIVE add_free_nodes(_, _, _)
add_free_nodes(frame, beam, entries) ==
    IF entries = <<>> THEN [err |-> "none", frame |-> frame]
    ELSE Let(Head(entries), LAMBDA entry :
         IF entry.node \notin FINDER_KEYWORDS \cup {NoUid} \cup DOMAIN frame.by_uid
         THEN [err |-> "KeyError", frame |-> frame]
         ELSE Let(IF entry.node \in FINDER_KEYWORDS
                  THEN get_closest_beam_node(frame, beam, FVec(entry.coord), entry.node)
                  ELSE IF entry.node # NoUid THEN frame.by_uid[entry.node]
                  ELSE get_closest_beam_node(frame, beam, FVec(entry.coord),
                           frame.beamlines[beam].free_node_mapping),
                  LAMBDA dest_node :
              Let(project_load(FVec(entry.load), FVec(entry.coord),
                               node_of(frame, dest_node).coord),
                  LAMBDA load_proj :
              Let(on_element(frame, dest_node,
                      update_concentrated_loads(
                          frame.beamlines[dest_node.beam].elements[dest_node.elem],
                          load_proj, dest_node.elem_loc, FALSE).element),
                  LAMBDA f :
                  add_free_nodes(
                      [f EXCEPT !.beamlines[beam].free_nodes =
                          Append(@, [coord |-> entry.coord, load |-> entry.load,
                                     closest_beam_node |-> dest_node])],
                      beam, Tail(entries))))))

(* BeamLine._add_loads *)
BeamLine_add_loads(frame, beam, loads) ==
    IF loads = None THEN [err |-> "none", frame |-> frame]
    ELSE Let(add_concentrated(frame, loads.concentrated), LAMBDA f1 :
         Let(add_distributed(f1, beam, loads.distributed), LAMBDA r2 :
             IF r2.err # "none" THEN r2
             ELSE add_free_nodes(r2.frame, beam, loads.free_nodes)))

(* BeamLine(...) for a definition without symmetry whose node uids are new *)
(* to the frame: the elements, the named nodes in the finder, the          *)
(* properties and the loads                                                *)
BeamLine_new(frame, bdef) ==
    Let(make_table([k \in 1..Len(bdef.nodes) |-> bdef.nodes[k].coord],
                   [k \in 1..Len(bdef.nodes) |-> bdef.nodes[k].uid]), LAMBDA table :
    Let(BeamLine_make_elements(table, bdef.nelem, bdef.nodes[1].up), LAMBDA elements :
    Let(Len(frame.beamlines) + 1, LAMBDA beam :
    Let([u \in {bdef.nodes[k].uid : k \in 1..Len(bdef.nodes)} |->
            IF elements[1].node1.uid = u
            THEN [beam |-> beam, elem |-> 1, elem_loc |-> 1]
            ELSE [beam |-> beam,
                  elem |-> CHOOSE k \in 1..Len(elements) : elements[k].node2.uid = u,
                  elem_loc |-> 2]] @@ frame.by_uid, LAMBDA by_uid :
    Let(BeamLine_add_beam_properties(elements, nodes_by_uid(table), bdef.beamprops),
        LAMBDA props :
        IF props.err # "none" THEN [err |-> props.err, frame |-> frame]
        ELSE BeamLine_add_loads(
                 [beamlines |-> Append(frame.beamlines,
                                    [uid |-> bdef.uid, elements |-> props.elements,
                                     free_node_mapping |-> bdef.free_node_mapping,
                                     free_nodes |-> <<>>]),
                  by_uid |-> by_uid],
                 beam, bdef.loads))))))

(* the loop of Frame.__init__ over the beam line definitions *)
RECURSIVE Frame_new(_, _)
Frame_new(frame, defs) ==
    IF defs = <<>> THEN [err |-> "none", frame |-> frame]
    ELSE Let(BeamLine_new(frame, Head(defs)), LAMBDA r :
             IF r.err # "none" THEN r ELSE Frame_new(r.frame, Tail(defs)))

(* F_beam of Frame._assemble_global_tensors: the load vectors of the       *)
(* elements added on windows of 12 entries that move on by 6               *)
assemble_F_beam(elements) ==
    Let(Eager([k \in 1..Len(elements) |-> load_vector_glob(elements[k])]), LAMBDA f :
        Eager([j \in 1..(DOF_PER_NODE * (Len(elements) + 1)) |->
            Let((j - 1) \div 6, LAMBDA k :
                FAdd(IF k >= 1 THEN f[k][j - 6 * (k - 1)] ELSE F0,
                     IF k + 1 <= Len(f) THEN f[k + 1][j - 6 * k] ELSE F0))]))

(* F of Frame._assemble_global_tensors: the beam vectors one after the     *)
(* other                                                                   *)
RECURSIVE assemble_F(_)
assemble_F(beamlines) ==
    IF beamlines = <<>> THEN <<>>
    ELSE assemble_F_beam(Head(beamlines).elements) \o assemble_F(Tail(beamlines))

(* Frame(beamline_definitions, ...) and the load vector it assembles *)
frame_loads(defs) ==
    Let(Frame_new([beamlines |-> <<>>, by_uid |-> <<>>], defs), LAMBDA r :
        IF r.err # "none" THEN [err |-> r.err, frame |-> None, F |-> <<>>]
        ELSE [err |-> "none", frame |-> r.frame, F |-> assemble_F(r.frame.beamlines)])

(* ----- the frames that get free-node loads ----- *)
FreeCoords == {<<1, 0, 0>>, <<0, 2, 1>>, <<-1, 1, 1>>}
FreeLoads == {<<1, 1, 1, 0, 0, 0>>, <<0, 3, -2, 0, 1, 0>>}
FreeTargets == {NoUid, GET_CLOSEST_Y, "root", "nowhere"}

FreeLists ==
    {<<>>} \cup {<<[coord |-> c, load |-> l, node |-> t]>> :
                    c \in FreeCoords, l \in FreeLoads, t \in FreeTargets}
    \cup {<<[coord |-> <<1, 0, 0>>, load |-> <<1, 1, 1, 0, 0, 0>>, node |-> NoUid],
            [coord |-> c, load |-> <<0, 3, -2, 0, 1, 0>>, node |-> NoUid]>> :
             c \in FreeCoords}

OtherLoads ==
    {<<>>, <<[node |-> "tip", load |-> <<1, 2, 3, 4, 5, 6>>, in_local_system |-> TRUE]>>,
     <<[node |-> "root", load |-> <<0, 0, 0, 0, 0, 0>>, in_local_system |-> TRUE]>>,
     <<[node |-> "tip", load |-> <<1, 2, 3, 4, 5, 6>>, in_local_system |-> FALSE]>>}

WholeBeam == <<[from |-> "root", to |-> "tip",
                constant |-> [material |-> "unit", profil |-> "unit"]]>>

(* a wing from root to tip along Y and a strut below the root; the         *)
(* concentrated loads of the strut may name nodes of the wing              *)
LoadedWing(nelem, conc, dist, free) ==
    [uid |-> "wing", nelem |-> nelem, free_node_mapping |-> GET_CLOSEST_NODE,
     nodes |-> <<[uid |-> "root", coord |-> Origin, up |-> G_Z],
                 [uid |-> "tip", coord |-> <<0, 2, 0>>, up |-> G_Z]>>,
     beamprops |-> WholeBeam,
     loads |-> [concentrated |-> conc, distributed |-> dist, free_nodes |-> free]]

LoadedStrut(conc) ==
    [uid |-> "strut", nelem |-> 1, free_node_mapping |-> GET_CLOSEST_NODE,
     nodes |-> <<[uid |-> "base", coord |-> <<0, 0, -1>>, up |-> G_X],
                 [uid |-> "top", coord |-> <<0, 0, 0>>, up |-> G_X]>>,
     beamprops |-> <<[from |-> "base", to |-> "top",
                      constant |-> [material |-> "unit", profil |-> "unit"]]>>,
     loads |-> IF conc = <<>> THEN None
               ELSE [concentrated |-> conc, distributed |-> <<>>, free_nodes |-> <<>>]]

WingDist ==
    {<<>>, <<[from |-> "root", to |-> "tip", constant |-> <<0, 0, -1, 0, 0, 0>>,
              in_local_system |-> TRUE]>>}

(* the definitions without their free-node loads *)
without_free_nodes(defs) ==
    [k \in 1..Len(defs) |->
        IF defs[k].loads = None THEN defs[k]
        ELSE [defs[k] EXCEPT !.loads.free_nodes = <<>>]]

(* a frame is built from beam line definitions and its load vector is      *)
(* assembled: ret holds the frame and F, and F0, the load vector of the    *)
(* same definitions without their free-node loads                          *)
MapFreeNodeLoads ==
    /\ call.op = "init"
    /\ \E nelem \in 1..MaxN, conc \in OtherLoads, dist \in WingDist,
          free \in FreeLists, struts \in 0..1, strut \in OtherLoads :
          \E defs \in {<<LoadedWing(nelem, conc, dist, free)>>
                       \o (IF struts = 0 THEN <<>> ELSE <<LoadedStrut(strut)>>)} :
          \E r \in {frame_loads(defs)} :
          \E r0 \in {frame_loads(without_free_nodes(defs))} :
             /\ call' = [op |-> "frame", defs |-> defs]
             /\ err' = r.err
             /\ ret' = [frame |-> r.frame, F |-> r.F, F0 |-> r0.F]
             /\ UNCHANGED <<abm, mdl>>

NextFreeNodes == MapFreeNodeLoads

SpecFreeNodes == Init /\ [][NextFreeNodes]_vars

(* the first row of F of a node of the frame, counted from 0 *)
node_row(frame, ref) ==
    DOF_PER_NODE
    * (SumSeq([b \in 1..(ref.beam - 1) |-> Len(frame.beamlines[b].elements) + 1])
       + ref.elem + ref.elem_loc - 2)

(* all free-node entries kept by the beam lines of the frame *)
mapped_free_nodes(frame) ==
    Flatten([b \in 1..Len(frame.beamlines) |-> frame.beamlines[b].free_nodes])

(* what the free-node loads add to F *)
FreePart == Eager([j \in 1..Len(ret.F) |-> FSub(ret.F[j], ret.F0[j])])

(* C21: every free-node load of the definitions is kept with one beam      *)
(* node, and what the free-node loads add to the global load vector is,    *)
(* at the six rows of that node, the load with its force components        *)
(* unchanged and its moment increased by r x F; so for each of Fx, Fy, Fz  *)
(* the sum over all nodes of what they add to F is the sum of the applied  *)
(* free-node forces.                                                       *)
C21_FreeLoadsMapped ==
    (call.op = "frame" /\ err = "none")
    => \E free \in {mapped_free_nodes(ret.frame)} :
       \E part \in {FreePart} :
          /\ Len(free) = Len(Flatten([k \in 1..Len(call.defs) |->
                                IF call.defs[k].loads = None THEN <<>>
                                ELSE call.defs[k].loads.free_nodes]))
          /\ \A j \in 1..Len(part) :
                part[j] = FSum([x \in 1..Len(free) |->
                    LET off == j - node_row(ret.frame, free[x].closest_beam_node)
                    IN  IF off \in 1..6
                        THEN project_load(FVec(free[x].load), FVec(free[x].coord),
                                 node_of(ret.frame, free[x].closest_beam_node).coord)[off]
                        ELSE F0])
          /\ \A c \in 1..3 :
                FSum([n \in 1..(Len(part) \div 6) |-> part[6 * (n - 1) + c]])
                    = FSum([x \in 1..Len(free) |-> FInt(free[x].load[c])])

(* the statement of C21 on frames none of whose concentrated loads is      *)
(* given in the local system                                               *)
FreeLoadsMappedAmongGlobal ==
    (/\ call.op = "frame"
     /\ \A k \in 1..Len(call.defs) :
           call.defs[k].loads # None
           => \A x \in 1..Len(call.defs[k].loads.concentrated) :
                 ~call.defs[k].loads.concentrated[x].in_local_system)
    => C21_FreeLoadsMapped

====
